---- MODULE Spec2Model ----
(***************************************************************************)
(* SAMUD: a multi-user telnet text adventure.  State machine model of the  *)
(* session layer (server.py, auth.py, commands.py), the player registry    *)
(* (player.py), the world (world.py), the broadcast fan-out (broadcast.py),*)
(* the NPC engine (npcs.py, npc_loader.py) and the tick scheduler          *)
(* (tick_scheduler.py).                                                    *)
(*                                                                         *)
(* Concurrency model: one asyncio task per connection plus background      *)
(* tasks on one event loop.  A step of the model is the code a task runs   *)
(* between two suspension points (await on a read, a write, the database   *)
(* or a sleep); consecutive awaits with no access to shared state between  *)
(* them are one suspension.                                                *)
(***************************************************************************)
EXTENDS Integers, Sequences, FiniteSets, TLC

None == "None"          \* Python's None for room ids and strings
NoId == 0               \* Python's None for player ids and object references

(***************************************************************************)
(* Bounds of the model.                                                    *)
(***************************************************************************)
NumClients == 2         \* connections accepted during one run
NumAccounts == 1        \* usernames that exist or can be signed up
MaxCommands == 1        \* game commands one session dispatches

Clients == 1..NumClients
Pids == 1..NumAccounts

(***************************************************************************)
(* world.py                                                                *)
(***************************************************************************)
Rooms == {"alamo_plaza", "river_walk_north", "river_walk_south", "pearl",
          "tower", "mission", "southtown"}
Directions == {"north", "south", "east", "west", "up", "down"}

\* World._connect_rooms.opposite_directions / World.get_opposite_direction
get_opposite_direction(d) ==
    CASE d = "north" -> "south"
      [] d = "south" -> "north"
      [] d = "east"  -> "west"
      [] d = "west"  -> "east"
      [] d = "up"    -> "down"
      [] d = "down"  -> "up"
      [] OTHER       -> d

\* World._connect_rooms: room1 --direction--> room2 and room2 --opposite--> room1
connect_rooms(ex, room1, direction, room2) ==
    [ex EXCEPT ![room1][direction] = room2,
               ![room2][get_opposite_direction(direction)] = room1]

NoExits == [r \in Rooms |-> [d \in Directions |-> None]]

\* World._initialize_world: the six bidirectional connections
WorldExits ==
    LET e1 == connect_rooms(NoExits, "alamo_plaza", "east", "river_walk_north")
        e2 == connect_rooms(e1, "alamo_plaza", "south", "mission")
        e3 == connect_rooms(e2, "river_walk_north", "south", "river_walk_south")
        e4 == connect_rooms(e3, "river_walk_north", "north", "pearl")
        e5 == connect_rooms(e4, "river_walk_south", "east", "tower")
    IN  connect_rooms(e5, "river_walk_south", "west", "southtown")

\* World.get_room: the Room for an id, or None
get_room(room_id) == IF room_id \in Rooms THEN room_id ELSE None

\* the world default room a new Player starts in (world.starting_room)
starting_room == "alamo_plaza"

\* config.MOVEMENT_SHORTCUTS, applied by CommandProcessor._move_player
MOVEMENT_SHORTCUTS(direction) ==
    CASE direction = "n" -> "north"
      [] direction = "s" -> "south"
      [] direction = "e" -> "east"
      [] direction = "w" -> "west"
      [] OTHER           -> direction

(***************************************************************************)
(* Session layer state.                                                    *)
(***************************************************************************)
VARIABLES
    pc,             \* where each connection's task is suspended
    is_active,      \* Client.is_active
    authenticated,  \* Client.authenticated
    player_id,      \* Client.player_id (NoId = None)
    clients,        \* MudServer.clients: the connected sessions
    srv_active,     \* MudServer.active_players: player id -> Client
    pm_players,     \* PlayerManager.active_players: player id -> Player object
    obj_room,       \* Player.current_room_id of the Player made by a session
    room_players,   \* Room.players of every room
    db_accounts,    \* players table: the ids that exist
    db_room,        \* players.current_room_id
    locals,         \* the local variables of the handler a task is inside
    ncmds,          \* commands the session has dispatched (bounded)
    last_out,       \* what the last send wrote to each session
    handled         \* sessions for which a game command handler has run

sessVars == <<pc, is_active, authenticated, player_id, clients, srv_active,
              pm_players, obj_room, room_players, db_accounts, db_room,
              locals, ncmds, last_out, handled>>

(***************************************************************************)
(* State of one live Player's chat rate limit (player.py).                 *)
(***************************************************************************)
VARIABLES
    now,            \* datetime.now(), in seconds
    message_times,  \* Player.message_times
    accepted_times, \* history: the times of the chat attempts accepted so far
    rate_result,    \* what the last chat attempt was answered with
    nattempts       \* chat attempts made (bounded)

rateVars == <<now, message_times, accepted_times, rate_result, nattempts>>

(***************************************************************************)
(* State of the idle check on one authenticated session (server.py).       *)
(***************************************************************************)
VARIABLES
    clock,          \* datetime.now(), in seconds
    last_activity,  \* Client.last_activity
    last_byte,      \* when the pending read last received a byte
    idle_pc,        \* "reading" | "finally": where the session's task is
    idle_active,    \* Client.is_active of the session
    idle_warnings,  \* warnings sent since last_activity was last set
    next_check,     \* when the sleep of idle_check_task ends
    late_check      \* a check cycle has seen the idle time past the timeout

idleVars == <<clock, last_activity, last_byte, idle_pc, idle_active,
              idle_warnings, next_check, late_check>>

(***************************************************************************)
(* State of one broadcast (broadcast.py).                                  *)
(***************************************************************************)
VARIABLES
    b_registry,     \* PlayerManager.active_players: id -> Player or NoId
    b_players,      \* Room.players of every room
    b_active,       \* Client.is_active of each player's session
    b_link,         \* what the next write to each player's session does
    b_pc,           \* "idle" | "sending" | "returned"
    b_scope,        \* the players the running broadcast addresses
    b_exclude,      \* its exclude_player_id
    b_pending,      \* its send tasks that have not run yet
    b_result,       \* how each of its send tasks ended
    b_raised        \* whether the broadcast raised to its caller

bcVars == <<b_registry, b_players, b_active, b_link, b_pc, b_scope, b_exclude,
            b_pending, b_result, b_raised>>

(***************************************************************************)
(* State of the NPC engine (npcs.py, npc_loader.py, tick_scheduler.py).    *)
(***************************************************************************)
VARIABLES
    npcs,           \* NPCManager.npcs: the registered NPC ids
    current_room,   \* NPC.current_room of the registered NPC object
    room_npcs,      \* NPCManager.room_npcs: room id -> set of NPC ids
    room_obj_npcs,  \* Room.npcs of every room
    npc_state,      \* npc_state table: the persisted current_room
    last_moved,     \* NPC.last_moved
    npc_now,        \* datetime.now(), in seconds since a midnight
    movement,       \* NPC.movement: allowed_rooms and schedule
    move_pc,        \* where the movement task of each NPC is suspended
    move_dest,      \* local of move_npc: destination
    move_old,       \* local of move_npc: old_room
    move_tasks,     \* TickScheduler.tasks: the NPCs with an npc_move_ task
    last_tick,      \* how the last run of an NPC's movement task went
    next_room,      \* what NPC.get_next_room returned to that run
    n_registry,     \* PlayerManager.active_players: id -> Player or NoId
    n_players       \* Room.players of every room

npcVars == <<npcs, current_room, room_npcs, room_obj_npcs, npc_state,
             last_moved, npc_now, movement, move_pc, move_dest, move_old,
             move_tasks, last_tick, next_room, n_registry, n_players>>

\* Client.send on one connection
VARIABLES
    s_active,       \* Client.is_active
    s_link,         \* what the transport does with the next write
    s_wire,         \* the bytes handed to the transport so far
    s_ret,          \* how the last call of send ended
    s_n             \* the calls of send so far

sendVars == <<s_active, s_link, s_wire, s_ret, s_n>>

\* Client.readline on one connection
VARIABLES
    rx,             \* the bytes the peer has sent that no read has taken
    rx_sent,        \* how many bytes the peer has sent
    rx_eof,         \* the peer has closed its side
    rl_pc,          \* where readline stands
    rl_echo,        \* the echo argument of the call
    line_buffer,    \* the local line_buffer
    rl_taken,       \* the bytes the reads of the loop have taken in this call
    rl_next,        \* what the read after the terminator took
    rl_out,         \* the bytes this call has written
    rl_status,      \* how the last call ended
    rl_line,        \* the line the last call returned
    rl_wait         \* how long the pending read has been waiting

lineVars == <<rx, rx_sent, rx_eof, rl_pc, rl_echo, line_buffer, rl_taken,
              rl_next, rl_out, rl_status, rl_line, rl_wait>>

\* say and the room broadcast across sessions, players and rooms
VARIABLES
    c_pc,           \* where each connection task stands
    c_id,           \* Client.player_id
    c_active,       \* Client.is_active
    c_srv,          \* MudServer.active_players: id -> session or NoId
    c_registry,     \* PlayerManager.active_players: id -> the Player, named
                    \* by the session that created it, or NoId
    c_room,         \* Player.current_room_id of the Player of each session
    c_players,      \* Room.players of every room
    c_db,           \* players.current_room_id in the database
    c_data,         \* local of add_player: the room of the row read
    c_dest,         \* local of move_to_room: room_id
    c_heard,        \* the last chat line each session was sent
    c_nmoves,       \* the moves so far
    c_nsay          \* the says so far

chatVars == <<c_pc, c_id, c_active, c_srv, c_registry, c_room, c_players,
              c_db, c_data, c_dest, c_heard, c_nmoves, c_nsay>>

\* the order of the messages of sender tasks on the transports of recipients
VARIABLES
    f_pc,           \* where each sender task stands
    f_emitted,      \* how many messages each sender has emitted
    f_tasks,        \* the _send_to_player coroutines asyncio.gather has not finished
    f_wire,         \* what was written to the transport of each recipient, in order
    f_active,       \* Client.is_active of each recipient
    f_closing       \* writer.transport.is_closing() of each recipient

fifoVars == <<f_pc, f_emitted, f_tasks, f_wire, f_active, f_closing>>

\* the tick loop of the scheduler and its scheduled tasks
VARIABLES
    tk_tasks,       \* TickScheduler.tasks: task id -> ScheduledTask or NoTask
    tk_now,         \* datetime.now(), in seconds
    tk_running,     \* TickScheduler.running
    tk_pc,          \* where the tick loop is suspended
    tk_wake,        \* when the sleep of the tick loop is over
    tk_coros,       \* the task.run() coroutines gather has not finished
    tk_raised,      \* the task ids whose callback has raised
    tk_last,        \* how the last call of the callback of each task id ended
    tk_loops        \* the _tick_loop tasks that exist

tickVars == <<tk_tasks, tk_now, tk_running, tk_pc, tk_wake, tk_coros, tk_raised,
              tk_last, tk_loops>>

\* the room loader building the exits of the rooms it has loaded
VARIABLES
    ld_decl,        \* the exits entry of each room definition: direction -> target
    ld_validate,    \* settings.validate_connections
    ld_pending,     \* RoomLoader.connections not processed yet
    ld_exits,       \* Room.exits of every loaded room
    ld_created,     \* created_connections of _create_connections
    ld_warnings,    \* the pairs room -> target the validator has logged
    ld_pc           \* where load_all_rooms stands

loaderVars == <<ld_decl, ld_validate, ld_pending, ld_exits, ld_created,
                ld_warnings, ld_pc>>

\* the NPC tasks under the tick loop
VARIABLES
    sc_npcs,        \* NPCManager.npcs: the registered NPC ids
    sc_room,        \* NPC.current_room
    sc_sched,       \* NPC.movement['schedule']
    sc_tasks,       \* TickScheduler.tasks: task id -> ScheduledTask or NoTask
    sc_now,         \* datetime.now(), in seconds since midnight
    sc_period,      \* TickScheduler.current_period
    sc_running,     \* TickScheduler.running
    sc_pc,          \* where the tick loop is suspended
    sc_wake,        \* when its sleep ends
    sc_coros,       \* the coroutines its gather still has to run
    sc_ran          \* how the last run of each task ended

schedVars == <<sc_npcs, sc_room, sc_sched, sc_tasks, sc_now, sc_period,
               sc_running, sc_pc, sc_wake, sc_coros, sc_ran>>

\* the shutdown of the server and its background tasks
VARIABLES
    sd_running,     \* MudServer.running
    sd_pc,          \* where MudServer.shutdown is suspended
    sd_tick_running, \* TickScheduler.running
    sd_tick,        \* where the tick loop is suspended
    sd_coros,       \* the coroutines its gather still has to start
    sd_idle,        \* where idle_check_task is suspended
    sd_calls,       \* the callbacks of scheduled tasks started so far
    sd_passes       \* the passes of the idle check begun so far

shutVars == <<sd_running, sd_pc, sd_tick_running, sd_tick, sd_coros, sd_idle,
              sd_calls, sd_passes>>

\* the connections of the server and its connection limit
VARIABLES
    cn_clients,     \* MudServer.clients: the connections that have an entry
    cn_pc,          \* where the handler task of each connection is suspended
    cn_late,        \* the table held MAX_CONNECTIONS entries when it was accepted
    cn_closing,     \* writer.transport.is_closing() of each connection
    cn_wire         \* the last message written to each connection

connVars == <<cn_clients, cn_pc, cn_late, cn_closing, cn_wire>>

\* the suggestions for an unknown verb
VARIABLES
    sg_text,        \* command_name: the verb that was typed, in lower case
    sg_similar,     \* the list _find_similar_commands returned
    sg_pc           \* whether process_command has looked the verb up

suggestVars == <<sg_text, sg_similar, sg_pc>>

vars == <<sessVars, rateVars, idleVars, bcVars, npcVars, sendVars, lineVars,
          chatVars, fifoVars, tickVars, loaderVars, schedVars, shutVars,
          connVars, suggestVars>>

\* what an action of one part leaves alone
nonSessVars == <<rateVars, idleVars, bcVars, npcVars, sendVars, lineVars,
                 chatVars, fifoVars, tickVars, loaderVars, schedVars,
                 shutVars, connVars, suggestVars>>
nonRateVars == <<sessVars, idleVars, bcVars, npcVars, sendVars, lineVars,
                 chatVars, fifoVars, tickVars, loaderVars, schedVars,
                 shutVars, connVars, suggestVars>>
nonIdleVars == <<sessVars, rateVars, bcVars, npcVars, sendVars, lineVars,
                 chatVars, fifoVars, tickVars, loaderVars, schedVars,
                 shutVars, connVars, suggestVars>>
nonBcVars == <<sessVars, rateVars, idleVars, npcVars, sendVars, lineVars,
               chatVars, fifoVars, tickVars, loaderVars, schedVars, shutVars,
               connVars, suggestVars>>
nonNpcVars == <<sessVars, rateVars, idleVars, bcVars, sendVars, lineVars,
                chatVars, fifoVars, tickVars, loaderVars, schedVars, shutVars,
                connVars, suggestVars>>
nonSendVars == <<sessVars, rateVars, idleVars, bcVars, npcVars, lineVars,
                 chatVars, fifoVars, tickVars, loaderVars, schedVars,
                 shutVars, connVars, suggestVars>>
nonLineVars == <<sessVars, rateVars, idleVars, bcVars, npcVars, sendVars,
                 chatVars, fifoVars, tickVars, loaderVars, schedVars,
                 shutVars, connVars, suggestVars>>
nonChatVars == <<sessVars, rateVars, idleVars, bcVars, npcVars, sendVars,
                 lineVars, fifoVars, tickVars, loaderVars, schedVars,
                 shutVars, connVars, suggestVars>>
nonFifoVars == <<sessVars, rateVars, idleVars, bcVars, npcVars, sendVars,
                 lineVars, chatVars, tickVars, loaderVars, schedVars,
                 shutVars, connVars, suggestVars>>
nonTickVars == <<sessVars, rateVars, idleVars, bcVars, npcVars, sendVars,
                 lineVars, chatVars, fifoVars, loaderVars, schedVars,
                 shutVars, connVars, suggestVars>>
nonLoaderVars == <<sessVars, rateVars, idleVars, bcVars, npcVars, sendVars,
                   lineVars, chatVars, fifoVars, tickVars, schedVars,
                   shutVars, connVars, suggestVars>>
nonSchedVars == <<sessVars, rateVars, idleVars, bcVars, npcVars, sendVars,
                  lineVars, chatVars, fifoVars, tickVars, loaderVars,
                  shutVars, connVars, suggestVars>>
nonShutVars == <<sessVars, rateVars, idleVars, bcVars, npcVars, sendVars,
                 lineVars, chatVars, fifoVars, tickVars, loaderVars,
                 schedVars, connVars, suggestVars>>
nonConnVars == <<sessVars, rateVars, idleVars, bcVars, npcVars, sendVars,
                 lineVars, chatVars, fifoVars, tickVars, loaderVars,
                 schedVars, shutVars, suggestVars>>
nonSuggestVars == <<sessVars, rateVars, idleVars, bcVars, npcVars, sendVars,
                    lineVars, chatVars, fifoVars, tickVars, loaderVars,
                    schedVars, shutVars, connVars>>

\* the locals of a task outside every handler.  username: the account of a
\* login or signup; password_ok: whether the typed password verifies;
\* attempt: the counter of handle_signup's loops; other_client: the session
\* handle_login displaces; player: the Player a handler fetched; old_room_id
\* and room_id: of Player.move_to_room and of a pending room write;
\* player_data: the row get_player_by_id has read
NoLocals == [username |-> NoId, password_ok |-> FALSE, attempt |-> 0,
             other_client |-> NoId, player |-> NoId, old_room_id |-> None,
             room_id |-> None, player_data |-> None]

\* Client.__init__ and the empty server, registry, world and database
\* (one account exists from an earlier run, the others can be signed up)
InitSess ==
    /\ pc = [c \in Clients |-> "new"]
    /\ is_active = [c \in Clients |-> TRUE]
    /\ authenticated = [c \in Clients |-> FALSE]
    /\ player_id = [c \in Clients |-> NoId]
    /\ clients = {}
    /\ srv_active = [p \in Pids |-> NoId]
    /\ pm_players = [p \in Pids |-> NoId]
    /\ obj_room = [c \in Clients |-> None]
    /\ room_players = [r \in Rooms |-> {}]
    /\ db_accounts \in {{1}, {}}
    /\ db_room = [p \in Pids |-> None]
    /\ locals = [c \in Clients |-> NoLocals]
    /\ ncmds = [c \in Clients |-> 0]
    /\ last_out = [c \in Clients |-> "none"]
    /\ handled = {}

(***************************************************************************)
(* server.py: Client.send and the connection loop of handle_client_shell.  *)
(***************************************************************************)
\* Client.send: writes nothing on a session that is not active
Send(lo, c, msg) == IF is_active[c] THEN [lo EXCEPT ![c] = msg] ELSE lo

\* the loop tests of handle_client_shell, evaluated when a handler of the
\* authentication loop returns False: the authentication loop, then the main
\* loop, then the finally block
LoopPc(act, auth) ==
    IF act /\ ~auth THEN "auth_read"
    ELSE IF act /\ auth THEN "cmd_read"
    ELSE "finally"

\* the test of the main loop
MainPc(act, auth) == IF act /\ auth THEN "cmd_read" ELSE "finally"

GameVerbs == {"look", "move", "n", "north", "s", "south", "e", "east",
              "w", "west", "where", "say", "shout", "who"}
PreAuthInputs == {"login", "signup", "help", "quit", "exit", "", "xyzzy"}
                     \cup GameVerbs

\* MudServer.handle_client_shell, up to the first prompt: the session is
\* entered in the table, the welcome text is sent
Connect(c) ==
    /\ pc[c] = "new"
    /\ clients' = clients \cup {c}
    /\ last_out' = Send(last_out, c, "welcome")
    /\ pc' = [pc EXCEPT ![c] = LoopPc(is_active[c], authenticated[c])]
    /\ UNCHANGED <<is_active, authenticated, player_id, srv_active, pm_players,
                   obj_room, room_players, db_accounts, db_room, locals,
                   ncmds, handled>>
    /\ UNCHANGED nonSessVars

\* Client.readline returns None (the peer closed, or the idle timeout of the
\* read expired): the loop breaks and the finally block runs
ReadEOF(c) ==
    /\ pc[c] \in {"auth_read", "cmd_read"}
    /\ pc' = [pc EXCEPT ![c] = "finally"]
    /\ UNCHANGED <<is_active, authenticated, player_id, clients, srv_active,
                   pm_players, obj_room, room_players, db_accounts, db_room,
                   locals, ncmds, last_out, handled>>
    /\ UNCHANGED nonSessVars

(***************************************************************************)
(* auth.py                                                                 *)
(***************************************************************************)
\* a welcome menu that starts the login dialogue on every input it does not
\* know
handle_welcome_choice_default_login(c, choice) ==
    /\ pc[c] = "auth_read"
    /\ CASE choice = "signup" ->
              /\ pc' = [pc EXCEPT ![c] = "su_user"]
              /\ last_out' = Send(last_out, c, "signup_banner")
              /\ UNCHANGED is_active
         [] choice = "help" ->
              /\ last_out' = Send(last_out, c, "preauth_help")
              /\ pc' = [pc EXCEPT ![c] = LoopPc(is_active[c], authenticated[c])]
              /\ UNCHANGED is_active
         [] choice \in {"quit", "exit"} ->
              /\ last_out' = Send(last_out, c, "goodbye")
              /\ is_active' = [is_active EXCEPT ![c] = FALSE]
              /\ pc' = [pc EXCEPT ![c] = LoopPc(FALSE, authenticated[c])]
         [] OTHER ->
              /\ pc' = [pc EXCEPT ![c] = "login_user"]
              /\ last_out' = Send(last_out, c, "login_banner")
              /\ UNCHANGED is_active
    /\ UNCHANGED <<authenticated, player_id, clients, srv_active, pm_players,
                   obj_room, room_players, db_accounts, db_room, locals,
                   ncmds, handled>>
    /\ UNCHANGED nonSessVars

\* AuthManager.handle_welcome_choice on one line read by the authentication
\* loop
handle_welcome_choice(c, choice) ==
    /\ pc[c] = "auth_read"
    /\ CASE choice = "login" ->
              /\ pc' = [pc EXCEPT ![c] = "login_user"]
              /\ last_out' = Send(last_out, c, "login_banner")
              /\ UNCHANGED is_active
         [] choice = "signup" ->
              /\ pc' = [pc EXCEPT ![c] = "su_user"]
              /\ last_out' = Send(last_out, c, "signup_banner")
              /\ UNCHANGED is_active
         [] choice = "help" ->
              /\ last_out' = Send(last_out, c, "preauth_help")
              /\ pc' = [pc EXCEPT ![c] = LoopPc(is_active[c], authenticated[c])]
              /\ UNCHANGED is_active
         [] choice \in {"quit", "exit"} ->
              /\ last_out' = Send(last_out, c, "goodbye")
              /\ is_active' = [is_active EXCEPT ![c] = FALSE]
              /\ pc' = [pc EXCEPT ![c] = LoopPc(FALSE, authenticated[c])]
         [] OTHER ->
              /\ last_out' = Send(last_out, c, "please_login")
              /\ pc' = [pc EXCEPT ![c] = LoopPc(is_active[c], authenticated[c])]
              /\ UNCHANGED is_active
    /\ UNCHANGED <<authenticated, player_id, clients, srv_active, pm_players,
                   obj_room, room_players, db_accounts, db_room, locals,
                   ncmds, handled>>
    /\ UNCHANGED nonSessVars

\* AuthManager.handle_login: the username and password reads.  u = NoId is an
\* empty line or a closed connection ("Login cancelled"); ok says whether the
\* password typed verifies against the stored hash
handle_login_read(c, u, ok) ==
    /\ pc[c] = "login_user"
    /\ IF u = NoId
       THEN /\ last_out' = Send(last_out, c, "login_cancelled")
            /\ pc' = [pc EXCEPT ![c] = LoopPc(is_active[c], authenticated[c])]
            /\ UNCHANGED locals
       ELSE /\ locals' = [locals EXCEPT ![c].username = u,
                                        ![c].password_ok = ok]
            /\ pc' = [pc EXCEPT ![c] = "login_db"]
            /\ UNCHANGED last_out
    /\ UNCHANGED <<is_active, authenticated, player_id, clients, srv_active,
                   pm_players, obj_room, room_players, db_accounts, db_room,
                   ncmds, handled>>
    /\ UNCHANGED nonSessVars

\* AuthManager.handle_login after db.get_player_by_username: the credential
\* check and the already-logged-in test on server.active_players
handle_login_check(c) ==
    /\ pc[c] = "login_db"
    /\ IF locals[c].username \notin db_accounts \/ ~locals[c].password_ok
       THEN /\ last_out' = Send(last_out, c, "invalid_login")
            /\ pc' = [pc EXCEPT ![c] = "login_fail"]
       ELSE IF srv_active[locals[c].username] # NoId
       THEN /\ last_out' = Send(last_out, c, "already_logged_in")
            /\ pc' = [pc EXCEPT ![c] = "kick_a"]
       ELSE /\ last_out' = Send(last_out, c, "welcome_back")
            /\ pc' = [pc EXCEPT ![c] = "login_welcome"]
    /\ UNCHANGED <<is_active, authenticated, player_id, clients, srv_active,
                   pm_players, obj_room, room_players, db_accounts, db_room,
                   locals, ncmds, handled>>
    /\ UNCHANGED nonSessVars

\* AuthManager.handle_login: the sleep after a failed login, then return False
handle_login_fail(c) ==
    /\ pc[c] = "login_fail"
    /\ locals' = [locals EXCEPT ![c] = NoLocals]
    /\ pc' = [pc EXCEPT ![c] = LoopPc(is_active[c], authenticated[c])]
    /\ UNCHANGED <<is_active, authenticated, player_id, clients, srv_active,
                   pm_players, obj_room, room_players, db_accounts, db_room,
                   ncmds, last_out, handled>>
    /\ UNCHANGED nonSessVars

\* AuthManager.handle_login, displacing the other session: after the notice to
\* this client, other_client is read from server.active_players (a KeyError
\* when the entry is gone by now ends the connection task) and is sent its
\* notice
handle_login_kick_lookup(c) ==
    /\ pc[c] = "kick_a"
    /\ IF srv_active[locals[c].username] = NoId
       THEN /\ pc' = [pc EXCEPT ![c] = "finally"]
            /\ locals' = [locals EXCEPT ![c] = NoLocals]
            /\ UNCHANGED last_out
       ELSE /\ locals' = [locals EXCEPT ![c].other_client =
                                           srv_active[locals[c].username]]
            /\ last_out' = Send(last_out, srv_active[locals[c].username],
                                "kicked")
            /\ pc' = [pc EXCEPT ![c] = "kick_b"]
    /\ UNCHANGED <<is_active, authenticated, player_id, clients, srv_active,
                   pm_players, obj_room, room_players, db_accounts, db_room,
                   ncmds, handled>>
    /\ UNCHANGED nonSessVars

\* AuthManager.handle_login: other_client.is_active = False, then sleep(1)
handle_login_kick(c) ==
    /\ pc[c] = "kick_b"
    /\ is_active' = [is_active EXCEPT ![locals[c].other_client] = FALSE]
    /\ pc' = [pc EXCEPT ![c] = "kick_sleep"]
    /\ UNCHANGED <<authenticated, player_id, clients, srv_active, pm_players,
                   obj_room, room_players, db_accounts, db_room, locals,
                   ncmds, last_out, handled>>
    /\ UNCHANGED nonSessVars

\* AuthManager.handle_login: the sleep is over, the welcome is sent
handle_login_welcome(c) ==
    /\ pc[c] = "kick_sleep"
    /\ last_out' = Send(last_out, c, "welcome_back")
    /\ pc' = [pc EXCEPT ![c] = "login_welcome"]
    /\ UNCHANGED <<is_active, authenticated, player_id, clients, srv_active,
                   pm_players, obj_room, room_players, db_accounts, db_room,
                   locals, ncmds, handled>>
    /\ UNCHANGED nonSessVars

\* AuthManager._complete_login up to its first await: the session is bound to
\* the player id, authenticated and entered in server.active_players
complete_login_bind(c) ==
    /\ pc[c] = "login_welcome"
    /\ player_id' = [player_id EXCEPT ![c] = locals[c].username]
    /\ authenticated' = [authenticated EXCEPT ![c] = TRUE]
    /\ srv_active' = [srv_active EXCEPT ![locals[c].username] = c]
    /\ locals' = [locals EXCEPT ![c] = NoLocals]
    /\ pc' = [pc EXCEPT ![c] = "cl_db"]
    /\ UNCHANGED <<is_active, clients, pm_players, obj_room, room_players,
                   db_accounts, db_room, ncmds, last_out, handled>>
    /\ UNCHANGED nonSessVars

\* PlayerManager.add_player up to its await: after update_last_login and
\* create_session a Player is made in the starting room and
\* db.get_player_by_id reads the row
add_player_read(c) ==
    /\ pc[c] = "cl_db"
    /\ obj_room' = [obj_room EXCEPT ![c] = starting_room]
    /\ locals' = [locals EXCEPT ![c].player_data = db_room[player_id[c]]]
    /\ pc' = [pc EXCEPT ![c] = "ap_db"]
    /\ UNCHANGED <<is_active, authenticated, player_id, clients, srv_active,
                   pm_players, room_players, db_accounts, db_room, ncmds,
                   last_out, handled>>
    /\ UNCHANGED nonSessVars

\* PlayerManager.add_player after the read: the persisted room if there is
\* one, the registry entry, the room's occupancy set
add_player_register(c) ==
    /\ pc[c] = "ap_db"
    /\ LET room_id == IF locals[c].player_data # None
                      THEN locals[c].player_data ELSE obj_room[c]
       IN  /\ obj_room' = [obj_room EXCEPT ![c] = room_id]
           /\ pm_players' = [pm_players EXCEPT ![player_id[c]] = c]
           /\ room_players' =
                 IF get_room(room_id) # None
                 THEN [room_players EXCEPT ![room_id] = @ \cup {player_id[c]}]
                 ELSE room_players
    /\ locals' = [locals EXCEPT ![c] = NoLocals]
    /\ pc' = [pc EXCEPT ![c] = "cl_send"]
    /\ UNCHANGED <<is_active, authenticated, player_id, clients, srv_active,
                   db_accounts, db_room, ncmds, last_out, handled>>
    /\ UNCHANGED nonSessVars

\* AuthManager._complete_login, the room description and the help hint: the
\* login is complete, handle_welcome_choice returns True and the main loop
\* tests its condition
complete_login_done(c) ==
    /\ pc[c] = "cl_send"
    /\ last_out' = Send(last_out, c, "room_info")
    /\ pc' = [pc EXCEPT ![c] = MainPc(is_active[c], authenticated[c])]
    /\ UNCHANGED <<is_active, authenticated, player_id, clients, srv_active,
                   pm_players, obj_room, room_players, db_accounts, db_room,
                   locals, ncmds, handled>>
    /\ UNCHANGED nonSessVars

max_attempts == 3

\* AuthManager.handle_signup, one pass of the username loop up to the database
\* lookup.  With cancel the line is empty; u = NoId is a name that
\* validate_username rejects
handle_signup_username(c, u, cancel) ==
    /\ pc[c] = "su_user"
    /\ IF cancel
       THEN /\ last_out' = Send(last_out, c, "signup_cancelled")
            /\ pc' = [pc EXCEPT ![c] = LoopPc(is_active[c], authenticated[c])]
            /\ locals' = [locals EXCEPT ![c] = NoLocals]
       ELSE IF u = NoId
       THEN IF locals[c].attempt + 1 >= max_attempts
            THEN /\ last_out' = Send(last_out, c, "too_many_attempts")
                 /\ pc' = [pc EXCEPT ![c] =
                              LoopPc(is_active[c], authenticated[c])]
                 /\ locals' = [locals EXCEPT ![c] = NoLocals]
            ELSE /\ last_out' = Send(last_out, c, "signup_error")
                 /\ locals' = [locals EXCEPT ![c].attempt = @ + 1]
                 /\ UNCHANGED pc
       ELSE /\ locals' = [locals EXCEPT ![c].username = u]
            /\ pc' = [pc EXCEPT ![c] = "su_db"]
            /\ UNCHANGED last_out
    /\ UNCHANGED <<is_active, authenticated, player_id, clients, srv_active,
                   pm_players, obj_room, room_players, db_accounts, db_room,
                   ncmds, handled>>
    /\ UNCHANGED nonSessVars

\* AuthManager.handle_signup after db.get_player_by_username: a taken name
\* costs an attempt, a free one leads to the password loop
handle_signup_lookup(c) ==
    /\ pc[c] = "su_db"
    /\ IF locals[c].username \in db_accounts
       THEN IF locals[c].attempt + 1 >= max_attempts
            THEN /\ last_out' = Send(last_out, c, "too_many_attempts")
                 /\ pc' = [pc EXCEPT ![c] =
                              LoopPc(is_active[c], authenticated[c])]
                 /\ locals' = [locals EXCEPT ![c] = NoLocals]
            ELSE /\ last_out' = Send(last_out, c, "username_taken")
                 /\ pc' = [pc EXCEPT ![c] = "su_user"]
                 /\ locals' = [locals EXCEPT ![c].attempt = @ + 1,
                                              ![c].username = NoId]
       ELSE /\ locals' = [locals EXCEPT ![c].attempt = 0]
            /\ pc' = [pc EXCEPT ![c] = "su_pass"]
            /\ UNCHANGED last_out
    /\ UNCHANGED <<is_active, authenticated, player_id, clients, srv_active,
                   pm_players, obj_room, room_players, db_accounts, db_room,
                   ncmds, handled>>
    /\ UNCHANGED nonSessVars

\* AuthManager.handle_signup, one pass of the password loop: cancelled,
\* rejected (invalid or not confirmed) or accepted
handle_signup_password(c, outcome) ==
    /\ pc[c] = "su_pass"
    /\ CASE outcome = "cancel" ->
              /\ last_out' = Send(last_out, c, "signup_cancelled")
              /\ pc' = [pc EXCEPT ![c] = LoopPc(is_active[c], authenticated[c])]
              /\ locals' = [locals EXCEPT ![c] = NoLocals]
         [] outcome = "reject" ->
              IF locals[c].attempt + 1 >= max_attempts
              THEN /\ last_out' = Send(last_out, c, "too_many_attempts")
                   /\ pc' = [pc EXCEPT ![c] =
                                LoopPc(is_active[c], authenticated[c])]
                   /\ locals' = [locals EXCEPT ![c] = NoLocals]
              ELSE /\ last_out' = Send(last_out, c, "signup_error")
                   /\ locals' = [locals EXCEPT ![c].attempt = @ + 1]
                   /\ UNCHANGED pc
         [] OTHER ->
              /\ pc' = [pc EXCEPT ![c] = "su_create"]
              /\ UNCHANGED <<locals, last_out>>
    /\ UNCHANGED <<is_active, authenticated, player_id, clients, srv_active,
                   pm_players, obj_room, room_players, db_accounts, db_room,
                   ncmds, handled>>
    /\ UNCHANGED nonSessVars

\* AuthManager.handle_signup after db.create_player: None on a username that
\* exists by now, else the account is created and the login is completed
handle_signup_create(c) ==
    /\ pc[c] = "su_create"
    /\ IF locals[c].username \in db_accounts
       THEN /\ last_out' = Send(last_out, c, "signup_failed")
            /\ pc' = [pc EXCEPT ![c] = LoopPc(is_active[c], authenticated[c])]
            /\ locals' = [locals EXCEPT ![c] = NoLocals]
            /\ UNCHANGED db_accounts
       ELSE /\ db_accounts' = db_accounts \cup {locals[c].username}
            /\ last_out' = Send(last_out, c, "account_created")
            /\ pc' = [pc EXCEPT ![c] = "login_welcome"]
            /\ locals' = [locals EXCEPT ![c].attempt = 0]
    /\ UNCHANGED <<is_active, authenticated, player_id, clients, srv_active,
                   pm_players, obj_room, room_players, db_room, ncmds,
                   handled>>
    /\ UNCHANGED nonSessVars

(***************************************************************************)
(* broadcast.py and the registry lookups of player.py                      *)
(***************************************************************************)
\* PlayerManager.get_players_in_room: the ids in the room's occupancy set that
\* have a Player in the registry
get_players_in_room(reg, occ, room_id) ==
    IF get_room(room_id) = None THEN {}
    ELSE {p \in occ[room_id] : reg[p] # NoId}

\* PlayerManager.get_online_players
get_online_players(reg) == {p \in DOMAIN reg : reg[p] # NoId}

\* a fan-out that stops at the first recipient whose write fails
broadcast_tasks_until_failure(players, exclude_player_id) ==
    {p \in players :
        /\ p # exclude_player_id
        /\ \A q \in players :
              (q < p /\ q # exclude_player_id) => b_link[q] = "ok"}

\* the send tasks a broadcast creates: one per player that is not excluded
broadcast_tasks(players, exclude_player_id) ==
    {p \in players : p # exclude_player_id}

\* BroadcastManager.broadcast_to_room as seen by the sessions: what each
\* session was last sent
broadcast_to_room(lo, room_id, msg, exclude_player_id) ==
    LET tasks == broadcast_tasks(
                    get_players_in_room(pm_players, room_players, room_id),
                    exclude_player_id)
    IN  [x \in Clients |->
            IF is_active[x] /\ \E p \in tasks : pm_players[p] = x
            THEN msg ELSE lo[x]]

\* BroadcastManager.broadcast_to_all as seen by the sessions
broadcast_to_all(lo, msg, exclude_player_id) ==
    LET tasks == broadcast_tasks(get_online_players(pm_players),
                                 exclude_player_id)
    IN  [x \in Clients |->
            IF is_active[x] /\ \E p \in tasks : pm_players[p] = x
            THEN msg ELSE lo[x]]

(***************************************************************************)
(* commands.py                                                             *)
(***************************************************************************)
CommandNames == GameVerbs \cup {"help", "quit", "exit"}

\* the handlers that return after sending text only
TextHandlers == {"look", "where", "who", "help"}
MoveHandlers == {"move", "n", "north", "s", "south", "e", "east", "w", "west"}

\* the lines a session types in the main loop, as <<verb, arguments>>
InputLines ==
    ({"look", "where", "who", "help", "quit", "exit", "xyzzy", "login",
      "n", "north", "s", "south", "e", "east", "w", "west"} \X {""})
    \cup ({"move"} \X {"", "north", "south", "east", "west", "e", "up"})
    \cup ({"say", "shout"} \X {"", "hello"})

\* the direction a movement verb hands to _move_player
move_direction(command_name, args) ==
    CASE command_name \in {"n", "north"} -> "north"
      [] command_name \in {"s", "south"} -> "south"
      [] command_name \in {"e", "east"}  -> "east"
      [] command_name \in {"w", "west"}  -> "west"
      [] OTHER -> args

\* the main loop read an empty line: nothing is dispatched
EmptyLine(c) ==
    /\ pc[c] = "cmd_read"
    /\ pc' = [pc EXCEPT ![c] = MainPc(is_active[c], authenticated[c])]
    /\ UNCHANGED <<is_active, authenticated, player_id, clients, srv_active,
                   pm_players, obj_room, room_players, db_accounts, db_room,
                   locals, ncmds, last_out, handled>>
    /\ UNCHANGED nonSessVars

\* CommandProcessor.process_command for the inputs that are answered with one
\* text: unknown verbs, the authentication check, look, where, who, help,
\* move without a direction, say and shout without a message
process_command_text(c, command_name, args) ==
    /\ pc[c] = "cmd_read"
    /\ ncmds[c] < MaxCommands
    /\ ncmds' = [ncmds EXCEPT ![c] = @ + 1]
    /\ CASE command_name \notin CommandNames ->
              /\ last_out' = Send(last_out, c, "unknown_command")
              /\ UNCHANGED handled
         [] command_name \in CommandNames /\ ~authenticated[c] ->
              /\ last_out' = Send(last_out, c, "must_be_logged_in")
              /\ UNCHANGED handled
         [] command_name \in TextHandlers /\ authenticated[c] ->
              /\ handled' = handled \cup {c}
              /\ last_out' = Send(last_out, c,
                                  IF command_name \in {"look", "where"}
                                     /\ pm_players[player_id[c]] = NoId
                                  THEN "not_logged_in" ELSE command_name)
         [] command_name \in {"move", "say", "shout"} /\ authenticated[c] ->
              /\ args = ""
              /\ handled' = handled \cup {c}
              /\ last_out' = Send(last_out, c, "usage")
         [] OTHER -> FALSE
    /\ pc' = [pc EXCEPT ![c] = MainPc(is_active[c], authenticated[c])]
    /\ UNCHANGED <<is_active, authenticated, player_id, clients, srv_active,
                   pm_players, obj_room, room_players, db_accounts, db_room,
                   locals>>
    /\ UNCHANGED nonSessVars

\* CommandProcessor.cmd_say and cmd_shout with a message: the rate limit of
\* the Player (allowed is the answer of Player.check_rate_limit), then the
\* broadcast to the room or to everyone
cmd_say_shout(c, command_name, args, allowed) ==
    /\ pc[c] = "cmd_read"
    /\ ncmds[c] < MaxCommands
    /\ authenticated[c]
    /\ command_name \in {"say", "shout"}
    /\ args # ""
    /\ ncmds' = [ncmds EXCEPT ![c] = @ + 1]
    /\ handled' = handled \cup {c}
    /\ LET player == pm_players[player_id[c]]
       IN  last_out' =
              IF player = NoId THEN Send(last_out, c, "not_logged_in")
              ELSE IF ~allowed THEN Send(last_out, c, "too_quickly")
              ELSE IF command_name = "say"
              THEN broadcast_to_room(last_out, obj_room[player],
                                     "room_message", NoId)
              ELSE broadcast_to_all(last_out, "global_message", NoId)
    /\ pc' = [pc EXCEPT ![c] = MainPc(is_active[c], authenticated[c])]
    /\ UNCHANGED <<is_active, authenticated, player_id, clients, srv_active,
                   pm_players, obj_room, room_players, db_accounts, db_room,
                   locals>>
    /\ UNCHANGED nonSessVars

\* process_command when the handler lets an exception escape to the handle
\* client loop instead of catching it: the finally block follows
process_command_uncaught(act, auth) == "finally"

\* process_command, the except branch around the handler: the error is
\* logged and reported, False is returned and the main loop tests its
\* condition again
process_command_except(act, auth) == MainPc(act, auth)

\* World.move_player: out of the source set, into the destination set
move_player(occ, pid, from_room_id, to_room_id) ==
    LET o1 == IF get_room(from_room_id) # None
              THEN [occ EXCEPT ![from_room_id] = @ \ {pid}] ELSE occ
    IN  IF get_room(to_room_id) # None
        THEN [o1 EXCEPT ![to_room_id] = @ \cup {pid}] ELSE o1

\* `direction not in room.exits` and room.exits[direction] of
\* CommandProcessor._move_player: the exit of the room in that direction,
\* None when the room has none
room_exit_wraps(room, direction) ==
    IF direction \in Directions /\ WorldExits[room][direction] # None
    THEN WorldExits[room][direction]
    ELSE starting_room

room_exit(room, direction) ==
    IF direction \in Directions THEN WorldExits[room][direction] ELSE None

\* CommandProcessor._move_player with Player.move_to_room up to its await on
\* db.update_player_room: the checks, World.move_player, the Player's room
_move_player(c, command_name, args) ==
    /\ pc[c] = "cmd_read"
    /\ ncmds[c] < MaxCommands
    /\ authenticated[c]
    /\ command_name \in MoveHandlers
    /\ command_name = "move" => args # ""
    /\ ncmds' = [ncmds EXCEPT ![c] = @ + 1]
    /\ handled' = handled \cup {c}
    /\ LET player == pm_players[player_id[c]]
           direction == MOVEMENT_SHORTCUTS(move_direction(command_name, args))
           room == IF player = NoId THEN None ELSE get_room(obj_room[player])
           dest == IF room # None THEN room_exit(room, direction) ELSE None
       IN  IF player = NoId \/ room = None \/ dest = None
              \/ get_room(dest) = None
           THEN /\ last_out' = Send(last_out, c,
                                    IF player = NoId THEN "not_logged_in"
                                    ELSE "cant_go")
                /\ pc' = [pc EXCEPT ![c] =
                             MainPc(is_active[c], authenticated[c])]
                /\ UNCHANGED <<locals, room_players, obj_room>>
           ELSE /\ locals' = [locals EXCEPT ![c].player = player,
                                            ![c].old_room_id = obj_room[player],
                                            ![c].room_id = dest]
                /\ room_players' = move_player(room_players, player_id[c],
                                               obj_room[player], dest)
                /\ obj_room' = [obj_room EXCEPT ![player] = dest]
                /\ pc' = [pc EXCEPT ![c] = "mv_db"]
                /\ UNCHANGED last_out
    /\ UNCHANGED <<is_active, authenticated, player_id, clients, srv_active,
                   pm_players, db_accounts, db_room>>
    /\ UNCHANGED nonSessVars

\* Player.move_to_room after db.update_player_room: the row is written, the
\* old room and the new room are notified
move_to_room_saved(c) ==
    /\ pc[c] = "mv_db"
    /\ db_room' = [db_room EXCEPT ![player_id[c]] = locals[c].room_id]
    /\ last_out' =
          LET lo1 == IF locals[c].old_room_id # None
                        /\ locals[c].old_room_id # locals[c].room_id
                     THEN broadcast_to_room(last_out, locals[c].old_room_id,
                                            "heads", player_id[c])
                     ELSE last_out
          IN  broadcast_to_room(lo1, locals[c].room_id, "arrives",
                                player_id[c])
    /\ pc' = [pc EXCEPT ![c] = "mv_notify"]
    /\ UNCHANGED <<is_active, authenticated, player_id, clients, srv_active,
                   pm_players, obj_room, room_players, db_accounts, locals,
                   ncmds, handled>>
    /\ UNCHANGED nonSessVars

\* Player.move_to_room when db.update_player_room raises (the database
\* layer catches nothing there): the error leaves move_to_room and
\* _move_player and is caught by process_command; the room set and the
\* Player's room stay as the handler left them, the row is not written
move_to_room_db_error(c) ==
    /\ pc[c] = "mv_db"
    /\ last_out' = Send(last_out, c, "error_occurred")
    /\ locals' = [locals EXCEPT ![c] = NoLocals]
    /\ pc' = [pc EXCEPT ![c] =
                 process_command_except(is_active[c], authenticated[c])]
    /\ UNCHANGED <<is_active, authenticated, player_id, clients, srv_active,
                   pm_players, obj_room, room_players, db_accounts, db_room,
                   ncmds, handled>>
    /\ UNCHANGED nonSessVars

\* CommandProcessor._move_player after move_to_room: the new room is shown and
\* the move is complete
_move_player_done(c) ==
    /\ pc[c] = "mv_notify"
    /\ last_out' = Send(last_out, c, "room_info")
    /\ locals' = [locals EXCEPT ![c] = NoLocals]
    /\ pc' = [pc EXCEPT ![c] = MainPc(is_active[c], authenticated[c])]
    /\ UNCHANGED <<is_active, authenticated, player_id, clients, srv_active,
                   pm_players, obj_room, room_players, db_accounts, db_room,
                   ncmds, handled>>
    /\ UNCHANGED nonSessVars

\* PlayerManager.remove_player up to its await on the broadcast: the registry
\* lookup and the removal of the id from the room of the Player found
remove_player_room(occ, reg, rooms_of, pid) ==
    IF reg[pid] = NoId \/ get_room(rooms_of[reg[pid]]) = None THEN occ
    ELSE [occ EXCEPT ![rooms_of[reg[pid]]] = @ \ {pid}]

\* the first two lines of PlayerManager.remove_player: an id without a
\* registry entry makes it return at once ("raise" stands for a lookup that
\* would go on with no Player and fail on its first attribute access)
remove_player_lookup_unguarded(reg, pid) ==
    IF reg[pid] = NoId THEN "raise" ELSE "remove"

remove_player_lookup(reg, pid) ==
    IF reg[pid] = NoId THEN "return" ELSE "remove"

\* CommandProcessor.cmd_quit up to its await on db.update_player_room: the
\* Player lookup; without a Player the goodbye follows at once
cmd_quit(c, command_name) ==
    /\ pc[c] = "cmd_read"
    /\ ncmds[c] < MaxCommands
    /\ authenticated[c]
    /\ command_name \in {"quit", "exit"}
    /\ ncmds' = [ncmds EXCEPT ![c] = @ + 1]
    /\ handled' = handled \cup {c}
    /\ LET player == pm_players[player_id[c]]
       IN  IF player = NoId
           THEN /\ last_out' = Send(last_out, c, "goodbye")
                /\ is_active' = [is_active EXCEPT ![c] = FALSE]
                /\ pc' = [pc EXCEPT ![c] = "finally"]
                /\ UNCHANGED locals
           ELSE /\ last_out' = Send(last_out, c, "saving")
                /\ locals' = [locals EXCEPT ![c].player = player,
                                            ![c].room_id = obj_room[player]]
                /\ pc' = [pc EXCEPT ![c] = "q_db"]
                /\ UNCHANGED is_active
    /\ UNCHANGED <<authenticated, player_id, clients, srv_active, pm_players,
                   obj_room, room_players, db_accounts, db_room>>
    /\ UNCHANGED nonSessVars

\* cmd_quit after db.update_player_room, entering remove_player: the lookup,
\* the removal from the room, the broadcast to the room
cmd_quit_saved(c) ==
    /\ pc[c] = "q_db"
    /\ db_room' = [db_room EXCEPT ![player_id[c]] = locals[c].room_id]
    /\ room_players' = remove_player_room(room_players, pm_players, obj_room,
                                          player_id[c])
    /\ IF remove_player_lookup(pm_players, player_id[c]) = "return"
       THEN /\ last_out' = Send(last_out, c, "goodbye")
            /\ is_active' = [is_active EXCEPT ![c] = FALSE]
            /\ locals' = [locals EXCEPT ![c] = NoLocals]
            /\ pc' = [pc EXCEPT ![c] = "finally"]
       ELSE IF remove_player_lookup(pm_players, player_id[c]) = "raise"
       THEN /\ last_out' = Send(last_out, c, "error_occurred")
            /\ locals' = [locals EXCEPT ![c] = NoLocals]
            /\ pc' = [pc EXCEPT ![c] =
                         process_command_except(is_active[c],
                                                authenticated[c])]
            /\ UNCHANGED is_active
       ELSE /\ last_out' = broadcast_to_room(last_out,
                                 obj_room[pm_players[player_id[c]]],
                                 "has_disconnected", player_id[c])
            /\ locals' = [locals EXCEPT ![c].player = pm_players[player_id[c]],
                                        ![c].room_id = None]
            /\ pc' = [pc EXCEPT ![c] = "q_rm_bcast"]
            /\ UNCHANGED is_active
    /\ UNCHANGED <<authenticated, player_id, clients, srv_active, pm_players,
                   obj_room, db_accounts, ncmds, handled>>
    /\ UNCHANGED nonSessVars

\* remove_player inside cmd_quit after the broadcast: the registry entry is
\* deleted; a KeyError (the entry is gone by now) is caught by
\* process_command, which reports an error and returns to the main loop
cmd_quit_removed(c) ==
    /\ pc[c] = "q_rm_bcast"
    /\ IF pm_players[player_id[c]] = NoId
       THEN /\ last_out' = Send(last_out, c, "error_occurred")
            /\ locals' = [locals EXCEPT ![c] = NoLocals]
            /\ pc' = [pc EXCEPT ![c] =
                         process_command_except(is_active[c],
                                                authenticated[c])]
            /\ UNCHANGED pm_players
       ELSE /\ pm_players' = [pm_players EXCEPT ![player_id[c]] = NoId]
            /\ pc' = [pc EXCEPT ![c] = "q_rm_db"]
            /\ UNCHANGED <<last_out, locals>>
    /\ UNCHANGED <<is_active, authenticated, player_id, clients, srv_active,
                   obj_room, room_players, db_accounts, db_room, ncmds,
                   handled>>
    /\ UNCHANGED nonSessVars

\* cmd_quit after db.end_session: the goodbye, the session is marked inactive
cmd_quit_done(c) ==
    /\ pc[c] = "q_rm_db"
    /\ last_out' = Send(last_out, c, "goodbye")
    /\ is_active' = [is_active EXCEPT ![c] = FALSE]
    /\ locals' = [locals EXCEPT ![c] = NoLocals]
    /\ pc' = [pc EXCEPT ![c] = "finally"]
    /\ UNCHANGED <<authenticated, player_id, clients, srv_active, pm_players,
                   obj_room, room_players, db_accounts, db_room, ncmds,
                   handled>>
    /\ UNCHANGED nonSessVars

(***************************************************************************)
(* server.py: the finally block of handle_client_shell                     *)
(***************************************************************************)
\* the finally block up to its first await: remove_player when the session
\* has a player id (lookup, removal from the room, broadcast), else
\* Client.disconnect and the deletions at once
teardown_begin(c) ==
    /\ pc[c] = "finally"
    /\ IF player_id[c] = NoId
       THEN /\ is_active' = [is_active EXCEPT ![c] = FALSE]
            /\ clients' = clients \ {c}
            /\ pc' = [pc EXCEPT ![c] = "closed"]
            /\ UNCHANGED <<room_players, locals, last_out>>
       ELSE IF remove_player_lookup(pm_players, player_id[c]) = "return"
       THEN /\ is_active' = [is_active EXCEPT ![c] = FALSE]
            /\ pc' = [pc EXCEPT ![c] = "td_disc"]
            /\ UNCHANGED <<clients, room_players, locals, last_out>>
       ELSE IF remove_player_lookup(pm_players, player_id[c]) = "raise"
       THEN /\ pc' = [pc EXCEPT ![c] = "crashed"]
            /\ UNCHANGED <<is_active, clients, room_players, locals, last_out>>
       ELSE /\ room_players' = remove_player_room(room_players, pm_players,
                                                  obj_room, player_id[c])
            /\ locals' = [locals EXCEPT ![c].player = pm_players[player_id[c]]]
            /\ last_out' = broadcast_to_room(last_out,
                                 obj_room[pm_players[player_id[c]]],
                                 "has_disconnected", player_id[c])
            /\ pc' = [pc EXCEPT ![c] = "td_rm_bcast"]
            /\ UNCHANGED <<is_active, clients>>
    /\ UNCHANGED <<authenticated, player_id, srv_active, pm_players, obj_room,
                   db_accounts, db_room, ncmds, handled>>
    /\ UNCHANGED nonSessVars

\* remove_player inside the finally block after the broadcast: the registry
\* entry is deleted; a KeyError leaves the finally block, so the rest of the
\* cleanup never runs
teardown_removed(c) ==
    /\ pc[c] = "td_rm_bcast"
    /\ IF pm_players[player_id[c]] = NoId
       THEN /\ pc' = [pc EXCEPT ![c] = "crashed"]
            /\ UNCHANGED pm_players
       ELSE /\ pm_players' = [pm_players EXCEPT ![player_id[c]] = NoId]
            /\ pc' = [pc EXCEPT ![c] = "td_rm_db"]
    /\ locals' = [locals EXCEPT ![c] = NoLocals]
    /\ UNCHANGED <<is_active, authenticated, player_id, clients, srv_active,
                   obj_room, room_players, db_accounts, db_room, ncmds,
                   last_out, handled>>
    /\ UNCHANGED nonSessVars

\* the finally block after remove_player: Client.disconnect marks the session
\* inactive and awaits db.end_session
teardown_disconnect(c) ==
    /\ pc[c] = "td_rm_db"
    /\ is_active' = [is_active EXCEPT ![c] = FALSE]
    /\ pc' = [pc EXCEPT ![c] = "td_disc"]
    /\ UNCHANGED <<authenticated, player_id, clients, srv_active, pm_players,
                   obj_room, room_players, db_accounts, db_room, locals,
                   ncmds, last_out, handled>>
    /\ UNCHANGED nonSessVars

\* the finally block after Client.disconnect: the session leaves the
\* connection table and its player id leaves server.active_players
teardown_delete(c) ==
    /\ pc[c] = "td_disc"
    /\ clients' = clients \ {c}
    /\ srv_active' = [srv_active EXCEPT ![player_id[c]] = NoId]
    /\ pc' = [pc EXCEPT ![c] = "closed"]
    /\ UNCHANGED <<is_active, authenticated, player_id, pm_players, obj_room,
                   room_players, db_accounts, db_room, locals, ncmds,
                   last_out, handled>>
    /\ UNCHANGED nonSessVars

(***************************************************************************)
(* The session specification.                                              *)
(***************************************************************************)
NextSess ==
    \E c \in Clients :
        \/ Connect(c)
        \/ ReadEOF(c)
        \/ \E choice \in PreAuthInputs : handle_welcome_choice(c, choice)
        \/ \E u \in Pids \cup {NoId}, ok \in BOOLEAN : handle_login_read(c, u, ok)
        \/ handle_login_check(c)
        \/ handle_login_fail(c)
        \/ handle_login_kick_lookup(c)
        \/ handle_login_kick(c)
        \/ handle_login_welcome(c)
        \/ complete_login_bind(c)
        \/ add_player_read(c)
        \/ add_player_register(c)
        \/ complete_login_done(c)
        \/ \E u \in Pids \cup {NoId}, cancel \in BOOLEAN :
              handle_signup_username(c, u, cancel)
        \/ handle_signup_lookup(c)
        \/ \E outcome \in {"cancel", "reject", "accept"} :
              handle_signup_password(c, outcome)
        \/ handle_signup_create(c)
        \/ EmptyLine(c)
        \/ \E line \in InputLines :
              \/ process_command_text(c, line[1], line[2])
              \/ \E allowed \in BOOLEAN :
                    cmd_say_shout(c, line[1], line[2], allowed)
              \/ _move_player(c, line[1], line[2])
              \/ cmd_quit(c, line[1])
        \/ move_to_room_saved(c)
        \/ move_to_room_db_error(c)
        \/ _move_player_done(c)
        \/ cmd_quit_saved(c)
        \/ cmd_quit_removed(c)
        \/ cmd_quit_done(c)
        \/ teardown_begin(c)
        \/ teardown_removed(c)
        \/ teardown_disconnect(c)
        \/ teardown_delete(c)

(***************************************************************************)
(* player.py: Player.check_rate_limit, with cmd_say and cmd_shout of       *)
(* commands.py as its callers.                                             *)
(***************************************************************************)
MESSAGE_RATE_LIMIT == 5
MESSAGE_RATE_WINDOW == 10

MaxTime == 11           \* the clock of the rate limit model stops here
MaxAttempts == 7        \* chat attempts of one Player

\* Player.__init__: no message sent yet
InitRate ==
    /\ now = 0
    /\ message_times = <<>>
    /\ accepted_times = <<>>
    /\ rate_result = "none"
    /\ nattempts = 0

\* check_rate_limit, the pruning: the timestamps younger than the window
prune_message_times(times, t) ==
    LET InWindow(x) == t - x < MESSAGE_RATE_WINDOW
    IN  SelectSeq(times, InWindow)

\* a limit test that lets one message more through
rate_limited_above(times) == Len(times) > MESSAGE_RATE_LIMIT

\* check_rate_limit, the limit test
rate_limited(times) == Len(times) >= MESSAGE_RATE_LIMIT

\* time passes
RateElapse ==
    /\ now < MaxTime
    /\ now' = now + 1
    /\ UNCHANGED <<message_times, accepted_times, rate_result, nattempts>>
    /\ UNCHANGED nonRateVars

\* cmd_say / cmd_shout of a registered Player: the usage error for an empty
\* message, else check_rate_limit and either the refusal or the broadcast
chat_attempt(command_name, args) ==
    /\ nattempts < MaxAttempts
    /\ nattempts' = nattempts + 1
    /\ IF args = ""
       THEN /\ rate_result' = "usage"
            /\ UNCHANGED <<message_times, accepted_times>>
       ELSE LET pruned == prune_message_times(message_times, now)
            IN  IF rate_limited(pruned)
                THEN /\ message_times' = pruned
                     /\ rate_result' = "too_quickly"
                     /\ UNCHANGED accepted_times
                ELSE /\ message_times' = Append(pruned, now)
                     /\ accepted_times' = Append(accepted_times, now)
                     /\ rate_result' = IF command_name = "say"
                                       THEN "room_message"
                                       ELSE "global_message"
    /\ UNCHANGED now
    /\ UNCHANGED nonRateVars

NextRate ==
    \/ RateElapse
    \/ \E command_name \in {"say", "shout"}, args \in {"", "hello"} :
          chat_attempt(command_name, args)

\* the accepted attempts of the Player that lie within the window before t
RecentAccepted(t) ==
    {i \in DOMAIN accepted_times :
        accepted_times[i] <= t /\ t - accepted_times[i] < MESSAGE_RATE_WINDOW}

\* no window of MESSAGE_RATE_WINDOW seconds [t, t + W) holds more than
\* MESSAGE_RATE_LIMIT accepted attempts
WindowBound ==
    \A t \in 0..MaxTime :
        Cardinality({i \in DOMAIN accepted_times :
                        t <= accepted_times[i]
                        /\ accepted_times[i] < t + MESSAGE_RATE_WINDOW})
            <= MESSAGE_RATE_LIMIT

\* C4: for every sequence of say and shout attempts of one live Player, an
\* attempt with a message is accepted exactly when fewer than N accepted
\* attempts lie within the preceding W seconds (age < W); so no window of W
\* seconds holds more than N accepted attempts and the (N+1)-th is refused
C4_SlidingWindow ==
    /\ []WindowBound
    /\ [][(nattempts' = nattempts + 1 /\ rate_result' # "usage")
            => ((rate_result' \in {"room_message", "global_message"})
                   <=> Cardinality(RecentAccepted(now)) < MESSAGE_RATE_LIMIT)
          ]_vars

\* the (N+1)-th attempt inside a window was refused, and an attempt after the
\* window had passed was accepted again
C4_Witness ==
    /\ rate_result = "room_message"
    /\ Len(accepted_times) = MESSAGE_RATE_LIMIT + 1
    /\ nattempts = MESSAGE_RATE_LIMIT + 2
    /\ accepted_times[MESSAGE_RATE_LIMIT] = 0

(***************************************************************************)
(* server.py: MudServer.idle_check_task against one authenticated session  *)
(* that waits in Client.readline.                                          *)
(***************************************************************************)
IDLE_TIMEOUT == 1800
IDLE_WARNING_TIME == IDLE_TIMEOUT - 300
IdleCheckSleep == 60

TimeStep == 30          \* the granularity of the clock of the idle model
MaxClock == 2040        \* that clock stops here

\* the session has just logged in and entered readline
InitIdle ==
    /\ clock = 0
    /\ last_activity = 0
    /\ last_byte = 0
    /\ idle_pc = "reading"
    /\ idle_active = TRUE
    /\ idle_warnings = 0
    /\ next_check = IdleCheckSleep
    /\ late_check = FALSE

\* time passes, up to the next timer that is due (the end of the sleep of
\* idle_check_task, the timeout of the pending read)
IdleElapse ==
    /\ clock < MaxClock
    /\ clock < next_check
    /\ idle_pc = "reading" => clock - last_byte < IDLE_TIMEOUT
    /\ clock' = clock + TimeStep
    /\ UNCHANGED <<last_activity, last_byte, idle_pc, idle_active,
                   idle_warnings, next_check, late_check>>
    /\ UNCHANGED nonIdleVars

\* idle_check_task, one cycle after its sleep: the warning while the idle
\* time is between the thresholds, the disconnection past the timeout
idle_check_task ==
    /\ clock >= next_check
    /\ next_check' = clock + IdleCheckSleep
    /\ LET idle_time == clock - last_activity
       IN  IF idle_pc = "closed"
           THEN UNCHANGED <<idle_warnings, idle_active, late_check>>
           ELSE IF idle_time > IDLE_WARNING_TIME /\ idle_time < IDLE_TIMEOUT
           THEN /\ idle_warnings' = IF idle_active THEN idle_warnings + 1
                                    ELSE idle_warnings
                /\ UNCHANGED <<idle_active, late_check>>
           ELSE IF idle_time > IDLE_TIMEOUT
           THEN /\ idle_active' = FALSE
                /\ late_check' = TRUE
                /\ UNCHANGED idle_warnings
           ELSE UNCHANGED <<idle_warnings, idle_active, late_check>>
    /\ UNCHANGED <<clock, last_activity, last_byte, idle_pc>>
    /\ UNCHANGED nonIdleVars

\* Client.readline receives a byte that does not end the line: the timeout of
\* the read starts again, last_activity stays
Keystroke ==
    /\ idle_pc = "reading"
    /\ clock - last_byte < IDLE_TIMEOUT
    /\ last_byte # clock
    /\ last_byte' = clock
    /\ UNCHANGED <<clock, last_activity, idle_pc, idle_active, idle_warnings,
                   next_check, late_check>>
    /\ UNCHANGED nonIdleVars

\* Client.readline returns a line, the command is processed
\* (Player.update_activity) and the loop enters readline again, which sets
\* last_activity; a session marked inactive leaves the loop instead
LineRead ==
    /\ idle_pc = "reading"
    /\ clock - last_byte < IDLE_TIMEOUT
    /\ last_activity # clock
    /\ last_activity' = clock
    /\ last_byte' = clock
    /\ idle_warnings' = 0
    /\ idle_pc' = IF idle_active THEN "reading" ELSE "finally"
    /\ UNCHANGED <<clock, idle_active, next_check, late_check>>
    /\ UNCHANGED nonIdleVars

\* Client.readline: no byte for IDLE_TIMEOUT seconds, the read returns None
\* and the loop breaks
ReadTimeout ==
    /\ idle_pc = "reading"
    /\ clock - last_byte >= IDLE_TIMEOUT
    /\ idle_pc' = "finally"
    /\ UNCHANGED <<clock, last_activity, last_byte, idle_active,
                   idle_warnings, next_check, late_check>>
    /\ UNCHANGED nonIdleVars

\* the finally block: Client.disconnect, the session leaves server.clients
IdleTeardown ==
    /\ idle_pc = "finally"
    /\ idle_active' = FALSE
    /\ idle_pc' = "closed"
    /\ UNCHANGED <<clock, last_activity, last_byte, idle_warnings,
                   next_check, late_check>>
    /\ UNCHANGED nonIdleVars

NextIdle ==
    \/ IdleElapse
    \/ idle_check_task
    \/ Keystroke
    \/ LineRead
    \/ ReadTimeout
    \/ IdleTeardown

\* C5: a session that stays idle is sent exactly one warning while its idle
\* time is between the warning threshold and the timeout, however many check
\* cycles fall into that interval; a check cycle that sees the idle time past
\* the timeout marks the session inactive
C5_WarnOnceThenDisconnect ==
    /\ idle_warnings <= 1
    /\ (idle_pc = "reading" /\ clock - last_activity >= IDLE_TIMEOUT)
          => idle_warnings = 1
    /\ late_check => ~idle_active

(***************************************************************************)
(* broadcast.py: BroadcastManager.broadcast_to_room, broadcast_to_all and  *)
(* _send_to_player, one send task per step.                                *)
(***************************************************************************)
NumBPlayers == 3        \* players that can be online in the broadcast model

BPids == 1..NumBPlayers
BRooms == {"alamo_plaza", "mission"}
Links == {"ok", "conn_error", "error"}

InitBroadcast ==
    /\ b_registry = [p \in BPids |-> NoId]
    /\ b_players = [r \in Rooms |-> {}]
    /\ b_active = [p \in BPids |-> TRUE]
    /\ b_link = [p \in BPids |-> "ok"]
    /\ b_pc = "idle"
    /\ b_scope = {}
    /\ b_exclude = NoId
    /\ b_pending = {}
    /\ b_result = [p \in BPids |-> "none"]
    /\ b_raised = FALSE

\* PlayerManager.add_player: a player comes online in a room
BcAddPlayer(p, r) ==
    /\ b_pc = "idle"
    /\ b_registry[p] = NoId
    /\ b_registry' = [b_registry EXCEPT ![p] = p]
    /\ b_players' = [b_players EXCEPT ![r] = @ \cup {p}]
    /\ b_active' = [b_active EXCEPT ![p] = TRUE]
    /\ b_link' = [b_link EXCEPT ![p] = "ok"]
    /\ UNCHANGED <<b_pc, b_scope, b_exclude, b_pending, b_result, b_raised>>
    /\ UNCHANGED nonBcVars

\* PlayerManager.remove_player: a player leaves the room and the registry
BcRemovePlayer(p) ==
    /\ b_pc = "idle"
    /\ b_registry[p] # NoId
    /\ b_registry' = [b_registry EXCEPT ![p] = NoId]
    /\ b_players' = [r \in Rooms |-> b_players[r] \ {p}]
    /\ b_active' = [b_active EXCEPT ![p] = TRUE]
    /\ b_link' = [b_link EXCEPT ![p] = "ok"]
    /\ UNCHANGED <<b_pc, b_scope, b_exclude, b_pending, b_result, b_raised>>
    /\ UNCHANGED nonBcVars

\* the connection of a player changes: the next write succeeds, raises a
\* ConnectionError, or raises another error
BcLinkChange(p, l) ==
    /\ b_pc = "idle"
    /\ b_registry[p] # NoId
    /\ b_link[p] # l
    /\ b_link' = [b_link EXCEPT ![p] = l]
    /\ UNCHANGED <<b_registry, b_players, b_active, b_pc, b_scope, b_exclude,
                   b_pending, b_result, b_raised>>
    /\ UNCHANGED nonBcVars

\* a session is marked inactive (displaced, idle) while its Player is still
\* in the registry
BcDeactivate(p) ==
    /\ b_pc = "idle"
    /\ b_registry[p] # NoId /\ b_active[p]
    /\ b_active' = [b_active EXCEPT ![p] = FALSE]
    /\ UNCHANGED <<b_registry, b_players, b_link, b_pc, b_scope, b_exclude,
                   b_pending, b_result, b_raised>>
    /\ UNCHANGED nonBcVars

\* a broadcast starts: the players it addresses, its send tasks; without
\* tasks it returns at once
BcStart(scope, exclude) ==
    /\ b_scope' = scope
    /\ b_exclude' = exclude
    /\ b_pending' = broadcast_tasks(scope, exclude)
    /\ b_result' = [p \in BPids |-> "none"]
    /\ b_raised' = FALSE
    /\ b_pc' = IF broadcast_tasks(scope, exclude) = {} THEN "returned"
               ELSE "sending"
    /\ UNCHANGED <<b_registry, b_players, b_active, b_link>>
    /\ UNCHANGED nonBcVars

\* BroadcastManager.broadcast_to_room up to asyncio.gather
bc_broadcast_to_room(room_id, exclude) ==
    /\ b_pc = "idle"
    /\ BcStart(get_players_in_room(b_registry, b_players, room_id), exclude)

\* BroadcastManager.broadcast_to_all up to asyncio.gather
bc_broadcast_to_all(exclude) ==
    /\ b_pc = "idle"
    /\ BcStart(get_online_players(b_registry), exclude)

\* how one send task ends.  _send_to_player sends only to an active session;
\* Client.send catches ConnectionError and BrokenPipeError, _send_to_player
\* catches every other Exception: no task ends by raising
send_to_player_result(act, link) ==
    IF ~act THEN "skipped"
    ELSE CASE link = "ok" -> "delivered"
           [] link = "conn_error" -> "lost"
           [] OTHER -> "logged"

\* asyncio.gather(*tasks, return_exceptions=True): an exception of a task is
\* a result, never raised to the caller
gather_raises(results) == FALSE

\* BroadcastManager._send_to_player for one pending task; a ConnectionError
\* makes Client.send mark the session inactive
_send_to_player(p) ==
    /\ b_pc = "sending"
    /\ p \in b_pending
    /\ b_pending' = b_pending \ {p}
    /\ b_result' = [b_result EXCEPT ![p] =
                       send_to_player_result(b_active[p], b_link[p])]
    /\ b_active' = IF b_active[p] /\ b_link[p] = "conn_error"
                   THEN [b_active EXCEPT ![p] = FALSE] ELSE b_active
    /\ UNCHANGED <<b_registry, b_players, b_link, b_pc, b_scope, b_exclude,
                   b_raised>>
    /\ UNCHANGED nonBcVars

\* asyncio.gather returns: every task has ended
bc_gather_returns ==
    /\ b_pc = "sending"
    /\ b_pending = {}
    /\ b_raised' = gather_raises(b_result)
    /\ b_pc' = "returned"
    /\ UNCHANGED <<b_registry, b_players, b_active, b_link, b_scope,
                   b_exclude, b_pending, b_result>>
    /\ UNCHANGED nonBcVars

\* the caller of the broadcast goes on; the record of the broadcast is dropped
BcContinue ==
    /\ b_pc = "returned"
    /\ b_pc' = "idle"
    /\ b_scope' = {}
    /\ b_exclude' = NoId
    /\ b_result' = [p \in BPids |-> "none"]
    /\ b_raised' = FALSE
    /\ UNCHANGED <<b_registry, b_players, b_active, b_link, b_pending>>
    /\ UNCHANGED nonBcVars

NextBroadcast ==
    \/ \E p \in BPids, r \in BRooms : BcAddPlayer(p, r)
    \/ \E p \in BPids : BcRemovePlayer(p)
    \/ \E p \in BPids, l \in Links : BcLinkChange(p, l)
    \/ \E p \in BPids : BcDeactivate(p)
    \/ \E r \in BRooms, exclude \in BPids \cup {NoId} :
          bc_broadcast_to_room(r, exclude)
    \/ \E exclude \in BPids \cup {NoId} : bc_broadcast_to_all(exclude)
    \/ \E p \in BPids : _send_to_player(p)
    \/ bc_gather_returns
    \/ BcContinue

\* C3: when a broadcast to a room or to all online players has returned,
\* every addressed player that is not excluded and whose own send succeeds
\* (active session, working connection) has been delivered the message,
\* whatever happened to the sends to the others, and nothing was raised to
\* the caller
C3_BroadcastIsolation ==
    b_pc = "returned" =>
        /\ ~b_raised
        /\ \A p \in b_scope :
              (p # b_exclude /\ b_active[p] /\ b_link[p] = "ok")
                  => b_result[p] = "delivered"

\* a broadcast has returned in which the send to one recipient failed and a
\* recipient with a larger and one with a smaller id were delivered
C3_Witness ==
    /\ b_pc = "returned"
    /\ \E p, q, r \in b_scope :
          /\ p < q /\ q < r
          /\ b_result[q] \in {"lost", "logged"}
          /\ b_result[p] = "delivered" /\ b_result[r] = "delivered"

(***************************************************************************)
(* npcs.py, npc_loader.py and tick_scheduler.py: the NPC registry, the     *)
(* room index of NPCManager, NPC.get_next_room and the movement task.      *)
(***************************************************************************)
NumNpcs == 1            \* NPCs of the NPC model
NumNpcPlayers == 1      \* players of the NPC model
NpcTimeStep == 60       \* seconds between two instants of the NPC model
NpcHorizon == 180       \* seconds of the run of the NPC model

NpcIds == 1..NumNpcs
NpcPids == 1..NumNpcPlayers
NpcRooms == {"alamo_plaza", "river_walk_north", "pearl"}
Periods == {"morning", "afternoon", "evening", "night"}

DaySeconds == 86400
HourSeconds == 3600

\* the run starts two steps before 06:00 of a day
StartTime == DaySeconds + 6 * HourSeconds - 2 * NpcTimeStep

\* datetime.hour
hour_of(t) == (t \div HourSeconds) % 24

\* the period of an hour, as NPC.get_next_room computes it
time_period(hour) ==
    IF 6 <= hour /\ hour < 12 THEN "morning"
    ELSE IF 12 <= hour /\ hour < 18 THEN "afternoon"
    ELSE IF 18 <= hour /\ hour < 24 THEN "evening"
    ELSE "night"

\* timedelta.seconds of a non-negative difference: the seconds within the
\* last day, the whole days are in timedelta.days
timedelta_seconds(d) == d % DaySeconds

\* NPC.movement.  present: the dictionary is not empty; schedule: the room of
\* each period, None where the schedule has no entry
NoSchedule == [p \in Periods |-> None]
NoMovement == [present |-> FALSE, allowed_rooms |-> {}, schedule |-> NoSchedule]
Movements ==
    {NoMovement} \cup
    {[present |-> TRUE, allowed_rooms |-> a, schedule |-> sch] :
        a \in {{"alamo_plaza"}, {"alamo_plaza", "river_walk_north"}},
        sch \in {NoSchedule,
                 [NoSchedule EXCEPT !["night"] = "river_walk_north"],
                 [NoSchedule EXCEPT !["morning"] = "pearl"]}}

\* movement.get('tick_interval', 120)
tick_interval == 120

\* NPC.is_interacting: set to False by NPC.__init__ and never assigned again
is_interacting == FALSE

\* NPC.pending_response: set to None by NPC.__init__ and never assigned again
pending_response == FALSE

\* NPC.can_move_to
can_move_to(mv, room_id) == mv.present /\ room_id \in mv.allowed_rooms

\* what random.choice(other_rooms) can return in NPC.get_next_room; None
\* when the random choice is not made
RandomChoices(mv, cur) ==
    IF mv.allowed_rooms \ {cur} = {} THEN {None}
    ELSE mv.allowed_rooms \ {cur}

\* NPC.get_next_room at instant t.  roll: random.random() <= move_prob;
\* pick: the result of random.choice
get_next_room(mv, cur, lm, t, roll, pick) ==
    IF ~mv.present \/ is_interacting THEN None
    ELSE IF timedelta_seconds(t - lm) < tick_interval THEN None
    ELSE IF ~roll THEN None
    ELSE LET target_room == mv.schedule[time_period(hour_of(t))]
         IN  IF target_room # None /\ target_room # cur THEN target_room
             ELSE pick

\* a check that only looks at whether the NPC was addressed
check_player_interaction_addressed(reg, occ, room_id) ==
    get_players_in_room(reg, occ, room_id) # {} /\ pending_response

\* NPCManager.check_player_interaction
check_player_interaction(reg, occ, room_id) ==
    IF get_players_in_room(reg, occ, room_id) = {} THEN FALSE
    ELSE IF pending_response THEN TRUE
    ELSE Cardinality(get_players_in_room(reg, occ, room_id)) > 0

\* Room.npcs: add_npc and remove_npc of a room of the world
Room_add_npc(robj, room_id, n) == [robj EXCEPT ![room_id] = @ \cup {n}]
Room_remove_npc(robj, room_id, n) == [robj EXCEPT ![room_id] = @ \ {n}]

\* NPCManager.remove_npc_from_room; an absent key of room_npcs is an empty set
remove_npc_from_room(idx, n, room_id) == [idx EXCEPT ![room_id] = @ \ {n}]

\* NPCManager.place_npc of a registered NPC, on the NPC's pointer (cur), the
\* index of the manager (idx) and the rooms' own sets (robj)
place_npc(st, n, room_id) ==
    LET old == st.cur[n]
        idx1 == IF old # None THEN remove_npc_from_room(st.idx, n, old)
                ELSE st.idx
        robj1 == IF old # None /\ get_room(old) # None
                 THEN Room_remove_npc(st.robj, old, n) ELSE st.robj
    IN  [cur |-> [st.cur EXCEPT ![n] = room_id],
         idx |-> [idx1 EXCEPT ![room_id] = @ \cup {n}],
         robj |-> IF get_room(room_id) # None
                  THEN Room_add_npc(robj1, room_id, n) ELSE robj1]

NpcPlacement == [cur |-> current_room, idx |-> room_npcs, robj |-> room_obj_npcs]

\* the npc_state table: no row, or the row save_npc_state wrote
NoRow == [exists |-> FALSE, current_room |-> None, last_moved |-> 0]
SavedRow(room_id, lm) == [exists |-> TRUE, current_room |-> room_id, last_moved |-> lm]

InitNpc ==
    /\ npcs = {}
    /\ current_room = [n \in NpcIds |-> None]
    /\ room_npcs = [r \in Rooms |-> {}]
    /\ room_obj_npcs = [r \in Rooms |-> {}]
    /\ npc_state \in [NpcIds -> {NoRow,
                                 SavedRow("river_walk_north",
                                          StartTime - DaySeconds)}]
    /\ last_moved = [n \in NpcIds |-> 0]
    /\ npc_now = StartTime
    /\ movement = [n \in NpcIds |-> NoMovement]
    /\ move_pc = [n \in NpcIds |-> "idle"]
    /\ move_dest = [n \in NpcIds |-> None]
    /\ move_old = [n \in NpcIds |-> None]
    /\ move_tasks = {}
    /\ last_tick = [n \in NpcIds |-> "none"]
    /\ next_room = [n \in NpcIds |-> None]
    /\ n_registry = [p \in NpcPids |-> NoId]
    /\ n_players = [r \in Rooms |-> {}]

\* Registration, rehydration, placement and reload act on an NPC whose
\* movement task is not inside move_npc: MudServer._initialize_npcs starts the
\* tick scheduler after NPCLoader.initialize_npcs has returned.

\* the variables of the NPC model an action on the registry leaves alone
npcTaskVars == <<move_pc, move_dest, move_old, move_tasks, last_tick, next_room>>
npcPlayerVars == <<n_registry, n_players>>

\* NPCManager.register_npc of a new NPC object (NPC.__init__: no room,
\* last_moved = now), placed when an initial room is given
register_npc(n, mv, initial_room) ==
    /\ n \notin npcs
    /\ move_pc[n] = "idle"
    /\ npcs' = npcs \cup {n}
    /\ movement' = [movement EXCEPT ![n] = mv]
    /\ last_moved' = [last_moved EXCEPT ![n] = npc_now]
    /\ LET placed == IF initial_room # None
                     THEN place_npc(NpcPlacement, n, initial_room)
                     ELSE NpcPlacement
       IN  /\ current_room' = placed.cur
           /\ room_npcs' = placed.idx
           /\ room_obj_npcs' = placed.robj
    /\ UNCHANGED <<npc_state, npc_now>>
    /\ UNCHANGED <<npcTaskVars, npcPlayerVars>>
    /\ UNCHANGED nonNpcVars

\* NPCManager.unregister_npc: the NPC leaves the index of the manager and
\* the registry; its object is gone
unregister_npc(n) ==
    /\ n \in npcs
    /\ move_pc[n] = "idle"
    /\ room_npcs' = IF current_room[n] # None
                    THEN remove_npc_from_room(room_npcs, n, current_room[n])
                    ELSE room_npcs
    /\ npcs' = npcs \ {n}
    /\ current_room' = [current_room EXCEPT ![n] = None]
    /\ movement' = [movement EXCEPT ![n] = NoMovement]
    /\ last_moved' = [last_moved EXCEPT ![n] = 0]
    /\ UNCHANGED <<room_obj_npcs, npc_state, npc_now>>
    /\ UNCHANGED <<npcTaskVars, npcPlayerVars>>
    /\ UNCHANGED nonNpcVars

\* NPCLoader.reload_npc with a new configuration mv.  An existing NPC is
\* unregistered and a new object with the old room pointer is registered in
\* that room; an unknown NPC is registered in its spawn room
reload_npc(n, mv, spawn_room) ==
    /\ move_pc[n] = "idle"
    /\ npcs' = npcs \cup {n}
    /\ movement' = [movement EXCEPT ![n] = mv]
    /\ last_moved' = [last_moved EXCEPT ![n] = npc_now]
    /\ LET room_id == IF n \in npcs THEN current_room[n] ELSE spawn_room
           unregistered ==
               [cur |-> [current_room EXCEPT
                             ![n] = IF n \in npcs THEN room_id ELSE None],
                idx |-> IF n \in npcs /\ current_room[n] # None
                        THEN remove_npc_from_room(room_npcs, n, current_room[n])
                        ELSE room_npcs,
                robj |-> room_obj_npcs]
           placed == IF room_id # None
                     THEN place_npc(unregistered, n, room_id)
                     ELSE unregistered
       IN  /\ (n \in npcs => spawn_room = None)
           /\ current_room' = placed.cur
           /\ room_npcs' = placed.idx
           /\ room_obj_npcs' = placed.robj
    /\ UNCHANGED <<npc_state, npc_now>>
    /\ UNCHANGED <<npcTaskVars, npcPlayerVars>>
    /\ UNCHANGED nonNpcVars

\* NPCManager.load_npc_state: with a row, the NPC's room pointer and
\* last_moved are overwritten from the row, then the NPC is placed in the
\* room the pointer now names
load_npc_state(n) ==
    /\ n \in npcs
    /\ move_pc[n] = "idle"
    /\ LET row == npc_state[n]
           loaded == [cur |-> [current_room EXCEPT ![n] = row.current_room],
                      idx |-> room_npcs, robj |-> room_obj_npcs]
           placed == IF ~row.exists THEN NpcPlacement
                     ELSE IF row.current_room # None
                          THEN place_npc(loaded, n, row.current_room)
                          ELSE loaded
       IN  /\ current_room' = placed.cur
           /\ room_npcs' = placed.idx
           /\ room_obj_npcs' = placed.robj
           /\ last_moved' = IF row.exists
                            THEN [last_moved EXCEPT ![n] = row.last_moved]
                            ELSE last_moved
    /\ UNCHANGED <<npcs, npc_state, npc_now, movement>>
    /\ UNCHANGED <<npcTaskVars, npcPlayerVars>>
    /\ UNCHANGED nonNpcVars

\* a call of NPCManager.place_npc (NPCLoader.initialize_npcs: the spawn room,
\* the relocation out of a room that no longer exists)
place_npc_call(n, room_id) ==
    /\ n \in npcs
    /\ move_pc[n] = "idle"
    /\ LET placed == place_npc(NpcPlacement, n, room_id)
       IN  /\ current_room' = placed.cur
           /\ room_npcs' = placed.idx
           /\ room_obj_npcs' = placed.robj
    /\ UNCHANGED <<npcs, npc_state, last_moved, npc_now, movement>>
    /\ UNCHANGED <<npcTaskVars, npcPlayerVars>>
    /\ UNCHANGED nonNpcVars

\* TickScheduler.register_npc_movement, called by MudServer._initialize_npcs
\* for an NPC with a movement configuration
register_npc_movement(n) ==
    /\ n \in npcs
    /\ movement[n].present
    /\ n \notin move_tasks
    /\ move_tasks' = move_tasks \cup {n}
    /\ UNCHANGED <<npcs, current_room, room_npcs, room_obj_npcs, npc_state,
                   last_moved, npc_now, movement, move_pc, move_dest,
                   move_old, last_tick, next_room>>
    /\ UNCHANGED npcPlayerVars
    /\ UNCHANGED nonNpcVars

\* time passes
NpcElapse ==
    /\ npc_now + NpcTimeStep <= StartTime + NpcHorizon
    /\ npc_now' = npc_now + NpcTimeStep
    /\ UNCHANGED <<npcs, current_room, room_npcs, room_obj_npcs, npc_state,
                   last_moved, movement>>
    /\ UNCHANGED <<npcTaskVars, npcPlayerVars>>
    /\ UNCHANGED nonNpcVars

\* PlayerManager.add_player: a player comes online in a room
npc_add_player(p, room_id) ==
    /\ n_registry[p] = NoId
    /\ \A r \in Rooms : p \notin n_players[r]
    /\ n_registry' = [n_registry EXCEPT ![p] = p]
    /\ n_players' = [n_players EXCEPT ![room_id] = @ \cup {p}]
    /\ UNCHANGED <<npcs, current_room, room_npcs, room_obj_npcs, npc_state,
                   last_moved, npc_now, movement>>
    /\ UNCHANGED npcTaskVars
    /\ UNCHANGED nonNpcVars

\* PlayerManager.remove_player: the player leaves its room and the registry
npc_remove_player(p) ==
    /\ n_registry[p] # NoId
    /\ n_registry' = [n_registry EXCEPT ![p] = NoId]
    /\ n_players' = [r \in Rooms |-> n_players[r] \ {p}]
    /\ UNCHANGED <<npcs, current_room, room_npcs, room_obj_npcs, npc_state,
                   last_moved, npc_now, movement>>
    /\ UNCHANGED npcTaskVars
    /\ UNCHANGED nonNpcVars

\* NPCManager.move_npc between its departure and its arrival broadcast: the
\* old room's own set, place_npc, the new room's own set
move_npc_place(n, old_room, destination) ==
    LET left == [cur |-> current_room, idx |-> room_npcs,
                 robj |-> IF old_room # None /\ get_room(old_room) # None
                          THEN Room_remove_npc(room_obj_npcs, old_room, n)
                          ELSE room_obj_npcs]
        placed == place_npc(left, n, destination)
    IN  [placed EXCEPT !.robj = IF get_room(destination) # None
                                THEN Room_add_npc(@, destination, n) ELSE @]

\* a move_npc that takes every room for an allowed one
move_npc_checks_any(regd, mv, n, destination) ==
    IF n \notin regd THEN "unknown" ELSE "proceed"

\* the two early returns of NPCManager.move_npc: the NPC is not registered,
\* the NPC cannot move to the destination
move_npc_checks(regd, mv, n, destination) ==
    IF n \notin regd THEN "unknown"
    ELSE IF ~can_move_to(mv, destination) THEN "refused"
    ELSE "proceed"

\* the movement task of an NPC runs (check_npc_movement), up to the first
\* broadcast of NPCManager.move_npc.  Without its NPC the task unregisters
\* itself.  roll and pick are the random draws of NPC.get_next_room
check_npc_movement(n, roll, pick) ==
    /\ n \in move_tasks
    /\ move_pc[n] = "idle"
    /\ pick \in RandomChoices(movement[n], current_room[n])
    /\ IF n \notin npcs
       THEN /\ move_tasks' = move_tasks \ {n}
            /\ UNCHANGED <<current_room, room_npcs, room_obj_npcs, last_moved,
                           move_pc, move_dest, move_old, last_tick, next_room>>
       ELSE LET room == get_next_room(movement[n], current_room[n],
                                      last_moved[n], npc_now, roll, pick)
                calls == /\ room # None /\ room # current_room[n]
                         /\ ~check_player_interaction(n_registry, n_players,
                                                      current_room[n])
                checks == move_npc_checks(npcs, movement[n], n, room)
                moves == calls /\ checks = "proceed"
                placed == move_npc_place(n, None, room)
            IN  /\ next_room' = [next_room EXCEPT ![n] = room]
                /\ last_tick' = [last_tick EXCEPT ![n] =
                      IF room = None \/ room = current_room[n] THEN "absent"
                      ELSE IF check_player_interaction(n_registry, n_players,
                                                       current_room[n])
                           THEN "suppressed"
                      ELSE IF checks # "proceed" THEN "refused"
                      ELSE "moving"]
                /\ IF moves /\ current_room[n] # None
                   THEN /\ move_pc' = [move_pc EXCEPT ![n] = "departing"]
                        /\ move_dest' = [move_dest EXCEPT ![n] = room]
                        /\ move_old' = [move_old EXCEPT ![n] = current_room[n]]
                        /\ UNCHANGED <<current_room, room_npcs, room_obj_npcs,
                                       last_moved>>
                   ELSE IF moves
                   THEN /\ move_pc' = [move_pc EXCEPT ![n] = "arriving"]
                        /\ move_dest' = [move_dest EXCEPT ![n] = room]
                        /\ current_room' = placed.cur
                        /\ room_npcs' = placed.idx
                        /\ room_obj_npcs' = placed.robj
                        /\ last_moved' = [last_moved EXCEPT ![n] = npc_now]
                        /\ UNCHANGED move_old
                   ELSE UNCHANGED <<current_room, room_npcs, room_obj_npcs,
                                    last_moved, move_pc, move_dest, move_old>>
                /\ UNCHANGED move_tasks
    /\ UNCHANGED <<npcs, npc_state, npc_now, movement>>
    /\ UNCHANGED npcPlayerVars
    /\ UNCHANGED nonNpcVars

\* NPCManager.move_npc after the departure broadcast, up to the arrival
\* broadcast
move_npc_departed(n) ==
    /\ move_pc[n] = "departing"
    /\ LET placed == move_npc_place(n, move_old[n], move_dest[n])
       IN  /\ current_room' = placed.cur
           /\ room_npcs' = placed.idx
           /\ room_obj_npcs' = placed.robj
    /\ last_moved' = [last_moved EXCEPT ![n] = npc_now]
    /\ move_pc' = [move_pc EXCEPT ![n] = "arriving"]
    /\ UNCHANGED <<npcs, npc_state, npc_now, movement, move_dest, move_old,
                   move_tasks, last_tick, next_room>>
    /\ UNCHANGED npcPlayerVars
    /\ UNCHANGED nonNpcVars

\* NPCManager.move_npc after the arrival broadcast: save_npc_state writes the
\* row of the NPC, the move returns
move_npc_arrived(n) ==
    /\ move_pc[n] = "arriving"
    /\ npc_state' = [npc_state EXCEPT
                        ![n] = SavedRow(current_room[n], last_moved[n])]
    /\ move_pc' = [move_pc EXCEPT ![n] = "idle"]
    /\ move_dest' = [move_dest EXCEPT ![n] = None]
    /\ move_old' = [move_old EXCEPT ![n] = None]
    /\ last_tick' = [last_tick EXCEPT ![n] = "moved"]
    /\ UNCHANGED <<npcs, current_room, room_npcs, room_obj_npcs, last_moved,
                   npc_now, movement, move_tasks, next_room>>
    /\ UNCHANGED npcPlayerVars
    /\ UNCHANGED nonNpcVars

\* a call of NPCManager.move_npc that returns at one of its early returns;
\* the calls that go on to the broadcasts are those of check_npc_movement
move_npc_call(n, destination) ==
    /\ move_pc[n] = "idle"
    /\ move_npc_checks(npcs, movement[n], n, destination) # "proceed"
    /\ UNCHANGED <<npcs, current_room, room_npcs, room_obj_npcs, npc_state,
                   last_moved, npc_now, movement>>
    /\ UNCHANGED <<npcTaskVars, npcPlayerVars>>
    /\ UNCHANGED nonNpcVars

NextNpc ==
    \/ \E n \in NpcIds, mv \in Movements, r \in NpcRooms \cup {None} :
          register_npc(n, mv, r)
    \/ \E n \in NpcIds : unregister_npc(n)
    \/ \E n \in NpcIds, mv \in Movements, r \in NpcRooms \cup {None} :
          reload_npc(n, mv, r)
    \/ \E n \in NpcIds : load_npc_state(n)
    \/ \E n \in NpcIds, r \in NpcRooms : place_npc_call(n, r)
    \/ \E n \in NpcIds : register_npc_movement(n)
    \/ NpcElapse
    \/ \E p \in NpcPids, r \in NpcRooms : npc_add_player(p, r)
    \/ \E p \in NpcPids : npc_remove_player(p)
    \/ \E n \in NpcIds, roll \in BOOLEAN, pick \in NpcRooms \cup {None} :
          check_npc_movement(n, roll, pick)
    \/ \E n \in NpcIds : move_npc_departed(n)
    \/ \E n \in NpcIds : move_npc_arrived(n)
    \/ \E n \in NpcIds, r \in NpcRooms : move_npc_call(n, r)

\* C6: every room NPC.get_next_room returns to the movement task, from the
\* schedule or from the random choice, is in the NPC's allowed rooms and is
\* not the NPC's current room
C6_NextRoomAllowed ==
    [][\A n \in NpcIds, roll \in BOOLEAN, pick \in NpcRooms \cup {None} :
          (check_npc_movement(n, roll, pick) /\ n \in npcs
              /\ next_room'[n] # None)
          => /\ next_room'[n] \in movement[n].allowed_rooms
             /\ next_room'[n] # current_room[n]]_vars

\* C7: NPC.get_next_room returns no room while less than tick_interval
\* seconds have passed since last_moved; after tick_interval seconds or more
\* (more than a day included), with the NPC not interacting, a roll that
\* succeeds and an allowed room other than the current one, it returns a room
C7_TickInterval ==
    [][\A n \in NpcIds, roll \in BOOLEAN, pick \in NpcRooms \cup {None} :
          (check_npc_movement(n, roll, pick) /\ n \in npcs)
          => LET elapsed == npc_now - last_moved[n]
             IN  /\ elapsed < tick_interval => next_room'[n] = None
                 /\ (/\ elapsed >= tick_interval
                     /\ ~is_interacting
                     /\ roll
                     /\ movement[n].present
                     /\ movement[n].allowed_rooms \ {current_room[n]} # {})
                    => next_room'[n] # None]_vars

\* C9: every NPC is in the set of at most one room, and it is in the set of
\* room R exactly when it is registered and its current_room is R
C9_OneRoomPerNpc ==
    \A n \in NpcIds :
        /\ \A r1, r2 \in Rooms :
              (n \in room_npcs[r1] /\ n \in room_npcs[r2]) => r1 = r2
        /\ \A r \in Rooms :
              n \in room_npcs[r] <=> (n \in npcs /\ current_room[n] = r)

\* C10: the movement task starts a move of an NPC only when no registered
\* player is in the NPC's current room at that moment
C10_PlayersSuppressMove ==
    [][\A n \in NpcIds :
          (move_pc[n] = "idle" /\ move_pc'[n] \in {"departing", "arriving"})
          => get_players_in_room(n_registry, n_players, current_room[n]) = {}]_vars

\* a run of the movement task in which get_next_room returned a room the NPC
\* may move to and the move was suppressed by a player in the NPC's room
C10_Witness ==
    \E n \in NpcIds :
        /\ last_tick[n] = "suppressed"
        /\ n \in npcs
        /\ next_room[n] # None
        /\ can_move_to(movement[n], next_room[n])
        /\ get_players_in_room(n_registry, n_players, current_room[n]) # {}

(***************************************************************************)
(* server.py: Client.send on one connection.  A message is a sequence of   *)
(* character codes, the wire a sequence of bytes.                          *)
(***************************************************************************)
MaxSends == 3

LF == 10
CR == 13

\* the messages the callers send: "H" and "H\n"
Messages == {<<72>>, <<72, LF>>}

\* what the transport does with a write: it takes it, it is closing
\* (transport.is_closing()), it raises ConnectionError or BrokenPipeError,
\* it raises another exception
SendLinks == {"ok", "closing", "conn_error", "error"}

\* message.replace('\n', '\r\n').encode(ENCODING), for codes below 128
RECURSIVE encode_message(_)
encode_message(m) ==
    IF m = <<>> THEN <<>>
    ELSE (IF Head(m) = LF THEN <<CR, LF>> ELSE <<Head(m)>>)
         \o encode_message(Tail(m))

\* a send without the except clause: the ConnectionError reaches the caller
Client_send_uncaught(act, link, wire, message) ==
    IF ~act \/ link = "closing"
    THEN [is_active |-> act, wire |-> wire, ret |-> "returned"]
    ELSE IF link = "ok"
    THEN [is_active |-> act, wire |-> wire \o encode_message(message),
          ret |-> "returned"]
    ELSE [is_active |-> act, wire |-> wire, ret |-> "raised"]

\* Client.send: nothing for an inactive session or a closing transport;
\* else the write and the drain, a ConnectionError or BrokenPipeError is
\* caught and clears is_active, any other exception reaches the caller
Client_send(act, link, wire, message) ==
    IF ~act \/ link = "closing"
    THEN [is_active |-> act, wire |-> wire, ret |-> "returned"]
    ELSE IF link = "ok"
    THEN [is_active |-> act, wire |-> wire \o encode_message(message),
          ret |-> "returned"]
    ELSE IF link = "conn_error"
    THEN [is_active |-> FALSE, wire |-> wire, ret |-> "returned"]
    ELSE [is_active |-> act, wire |-> wire, ret |-> "raised"]

\* the connection changes under the session: the peer resets it, the
\* transport starts closing
SendLinkChange(l) ==
    /\ l \in SendLinks
    /\ l # s_link
    /\ s_link' = l
    /\ UNCHANGED <<s_active, s_wire, s_ret, s_n>>
    /\ UNCHANGED nonSendVars

\* is_active is cleared from outside send: the idle check, a login from
\* another connection, quit
SendDeactivate ==
    /\ s_active
    /\ s_active' = FALSE
    /\ UNCHANGED <<s_link, s_wire, s_ret, s_n>>
    /\ UNCHANGED nonSendVars

\* one call of Client.send
send(message) ==
    /\ s_n < MaxSends
    /\ LET r == Client_send(s_active, s_link, s_wire, message)
       IN  /\ s_active' = r.is_active
           /\ s_wire' = r.wire
           /\ s_ret' = r.ret
    /\ s_n' = s_n + 1
    /\ UNCHANGED s_link
    /\ UNCHANGED nonSendVars

NextSend ==
    \/ \E l \in SendLinks : SendLinkChange(l)
    \/ SendDeactivate
    \/ \E message \in Messages : send(message)

\* C14: a call of send on a broken connection returns normally and leaves
\* is_active false; a call on an inactive session returns normally, writes
\* nothing and changes nothing; a call that returned normally on an active
\* session with a working transport wrote the encoded message
C14_SendNeverRaises ==
    [][s_n' = s_n + 1 =>
          /\ s_link \in {"ok", "closing", "conn_error"} => s_ret' = "returned"
          /\ (s_active /\ s_link = "conn_error") => ~s_active'
          /\ ~s_active => (s_wire' = s_wire /\ ~s_active')
          /\ (s_active /\ s_link = "ok") =>
                (s_active' /\ Len(s_wire') > Len(s_wire))]_vars

\* a send has met a broken connection and returned, after an earlier send
\* had written
C14_Witness ==
    /\ s_ret = "returned"
    /\ ~s_active
    /\ s_link = "conn_error"
    /\ s_wire # <<>>
    /\ s_n >= 2

(***************************************************************************)
(* server.py: Client.readline on one connection, byte by byte.  A step is  *)
(* one read of the code: the read at the top of the loop, the two reads    *)
(* after IAC, the read after the terminator.                               *)
(***************************************************************************)
MaxBytes == 4
LineTimeStep == 900
LineHorizon == 2700

\* the bytes the peer types: BEL, BS, LF, CR, space, "a", WILL, IAC
Bytes == {7, 8, LF, CR, 32, 97, 251, 255}

\* ''.join(line_buffer).strip(): the buffer holds bytes 32..126 only, so the
\* one whitespace it can hold is the space
RECURSIVE strip(_)
strip(line) ==
    IF line # <<>> /\ Head(line) = 32 THEN strip(Tail(line))
    ELSE IF line # <<>> /\ line[Len(line)] = 32
    THEN strip(SubSeq(line, 1, Len(line) - 1))
    ELSE line

\* a reader that takes the byte after IAC and never an option byte
takes_option_never(cmd) == FALSE

\* readline after IAC: WILL, WONT, DO and DONT are followed by an option byte
takes_option(cmd) == cmd \in {251, 252, 253, 254}

\* a reader that echoes what was typed whatever the echo argument
echo_byte_plain(echo, char) == char

\* readline's answer to a printable byte: the byte, or "*" without echo
echo_byte(echo, char) == IF echo THEN char ELSE 42

\* readline up to its loop: last_activity, IAC WILL ECHO, an empty buffer
readline(echo) ==
    /\ rl_pc = "idle"
    /\ rl_pc' = "char"
    /\ rl_echo' = echo
    /\ line_buffer' = <<>>
    /\ rl_taken' = <<>>
    /\ rl_next' = <<>>
    /\ rl_out' = <<255, 251, 1>>
    /\ rl_status' = "none"
    /\ rl_line' = <<>>
    /\ rl_wait' = 0
    /\ UNCHANGED <<rx, rx_sent, rx_eof>>
    /\ UNCHANGED nonLineVars

\* the peer sends one byte
PeerTypes(b) ==
    /\ rx_sent < MaxBytes
    /\ ~rx_eof
    /\ rx = <<>>
    /\ rx' = <<b>>
    /\ rx_sent' = rx_sent + 1
    /\ UNCHANGED <<rx_eof, rl_pc, rl_echo, line_buffer, rl_taken, rl_next,
                   rl_out, rl_status, rl_line, rl_wait>>
    /\ UNCHANGED nonLineVars

\* the peer closes its side
PeerCloses ==
    /\ ~rx_eof
    /\ rx_eof' = TRUE
    /\ UNCHANGED <<rx, rx_sent, rl_pc, rl_echo, line_buffer, rl_taken,
                   rl_next, rl_out, rl_status, rl_line, rl_wait>>
    /\ UNCHANGED nonLineVars

\* time passes while a read waits for a byte.  The read at the top of the
\* loop is under wait_for(IDLE_TIMEOUT); the reads after IAC are bare
\* readexactly calls, nothing ends their wait
LineElapse ==
    /\ rl_pc \in {"char", "iac_cmd", "iac_opt"}
    /\ rx = <<>>
    /\ ~rx_eof
    /\ rl_wait + LineTimeStep <=
          (IF rl_pc = "char" THEN IDLE_TIMEOUT ELSE LineHorizon)
    /\ rl_wait' = rl_wait + LineTimeStep
    /\ UNCHANGED <<rx, rx_sent, rx_eof, rl_pc, rl_echo, line_buffer,
                   rl_taken, rl_next, rl_out, rl_status, rl_line>>
    /\ UNCHANGED nonLineVars

\* the read at the top of the loop gives up: asyncio.TimeoutError after
\* IDLE_TIMEOUT, IncompleteReadError when the peer has closed; readline
\* returns None
readline_none ==
    /\ rl_pc = "char"
    /\ rx = <<>>
    /\ rx_eof \/ rl_wait + LineTimeStep > IDLE_TIMEOUT
    /\ rl_pc' = "idle"
    /\ rl_status' = "absent"
    /\ rl_wait' = 0
    /\ UNCHANGED <<rx, rx_sent, rx_eof, rl_echo, line_buffer, rl_taken,
                   rl_next, rl_out, rl_line>>
    /\ UNCHANGED nonLineVars

\* the read at the top of the loop returns a byte: IAC, a terminator, BS or
\* DEL, a printable byte, anything else
readline_char ==
    /\ rl_pc = "char"
    /\ rx # <<>>
    /\ LET char == Head(rx)
       IN  /\ rl_taken' = Append(rl_taken, char)
           /\ IF char = 255
              THEN /\ rl_pc' = "iac_cmd"
                   /\ UNCHANGED <<line_buffer, rl_out>>
              ELSE IF char \in {CR, LF}
              THEN /\ rl_pc' = "eol"
                   /\ UNCHANGED <<line_buffer, rl_out>>
              ELSE IF char \in {8, 127}
              THEN /\ rl_pc' = "char"
                   /\ IF line_buffer # <<>>
                      THEN /\ line_buffer' =
                                 SubSeq(line_buffer, 1, Len(line_buffer) - 1)
                           /\ rl_out' = rl_out \o <<8, 32, 8>>
                      ELSE UNCHANGED <<line_buffer, rl_out>>
              ELSE IF 32 <= char /\ char <= 126
              THEN /\ rl_pc' = "char"
                   /\ line_buffer' = Append(line_buffer, char)
                   /\ rl_out' = Append(rl_out, echo_byte(rl_echo, char))
              ELSE /\ rl_pc' = "char"
                   /\ UNCHANGED <<line_buffer, rl_out>>
    /\ rx' = Tail(rx)
    /\ rl_wait' = 0
    /\ UNCHANGED <<rx_sent, rx_eof, rl_echo, rl_next, rl_status, rl_line>>
    /\ UNCHANGED nonLineVars

\* the reads after IAC: the command byte, then the option byte when the
\* command takes one; IncompleteReadError is swallowed by the bare except
\* and the loop goes on
readline_iac ==
    /\ rl_pc \in {"iac_cmd", "iac_opt"}
    /\ rx # <<>> \/ rx_eof
    /\ IF rx # <<>>
       THEN /\ rl_taken' = Append(rl_taken, Head(rx))
            /\ rx' = Tail(rx)
            /\ rl_pc' = IF rl_pc = "iac_cmd" /\ takes_option(Head(rx))
                        THEN "iac_opt" ELSE "char"
       ELSE /\ rl_pc' = "char"
            /\ UNCHANGED <<rx, rl_taken>>
    /\ rl_wait' = 0
    /\ UNCHANGED <<rx_sent, rx_eof, rl_echo, line_buffer, rl_next, rl_out,
                   rl_status, rl_line>>
    /\ UNCHANGED nonLineVars

\* after the terminator: wait_for(readexactly(1), 0.01) takes whatever byte
\* is there, or times out; then "\r\n", IAC WONT ECHO, and the stripped
\* buffer is returned
readline_eol ==
    /\ rl_pc = "eol"
    /\ IF rx # <<>>
       THEN /\ rl_next' = <<Head(rx)>>
            /\ rx' = Tail(rx)
       ELSE /\ rl_next' = <<>>
            /\ UNCHANGED rx
    /\ rl_out' = rl_out \o <<CR, LF>> \o <<255, 252, 1>>
    /\ rl_line' = strip(line_buffer)
    /\ rl_status' = "line"
    /\ rl_pc' = "idle"
    /\ rl_wait' = 0
    /\ UNCHANGED <<rx_sent, rx_eof, rl_echo, line_buffer, rl_taken>>
    /\ UNCHANGED nonLineVars

NextLine ==
    \/ \E echo \in BOOLEAN : readline(echo)
    \/ \E b \in Bytes : PeerTypes(b)
    \/ PeerCloses
    \/ LineElapse
    \/ readline_none
    \/ readline_char
    \/ readline_iac
    \/ readline_eol

\* C15: no read of readline waits longer than the idle threshold for a
\* byte of a silent peer
C15_ReadsBounded ==
    rl_pc \in {"char", "iac_cmd", "iac_opt", "eol"} =>
        rl_wait <= IDLE_TIMEOUT

\* C16: the byte readline takes after a terminator, when it takes one, is
\* the other terminator of the pair
C16_OnlyPairedTerminatorDiscarded ==
    rl_next # <<>> =>
        /\ rl_next[1] \in {CR, LF}
        /\ rl_next[1] # rl_taken[Len(rl_taken)]

\* the reference line of a byte sequence: printable bytes in order, BS and
\* DEL take the last one back, IAC goes with its command byte and with the
\* option byte of WILL, WONT, DO and DONT, other bytes are dropped, the
\* first terminator ends the line
RECURSIVE reference_edit(_, _)
reference_edit(bytes, buf) ==
    IF bytes = <<>> THEN buf
    ELSE LET b == Head(bytes)
         IN  IF b = 255
             THEN reference_edit(
                     SubSeq(bytes,
                            IF Len(bytes) >= 2 /\ bytes[2] \in 251..254
                            THEN 4 ELSE 3,
                            Len(bytes)),
                     buf)
             ELSE IF b \in {CR, LF} THEN buf
             ELSE IF b \in {8, 127}
             THEN reference_edit(Tail(bytes),
                                 IF buf = <<>> THEN buf
                                 ELSE SubSeq(buf, 1, Len(buf) - 1))
             ELSE IF b \in 32..126
             THEN reference_edit(Tail(bytes), Append(buf, b))
             ELSE reference_edit(Tail(bytes), buf)

\* a line without its leading and trailing spaces
trimmed(line) ==
    LET inked == {i \in 1..Len(line) : line[i] # 32}
    IN  IF inked = {} THEN <<>>
        ELSE SubSeq(line,
                    CHOOSE i \in inked : \A j \in inked : i <= j,
                    CHOOSE i \in inked : \A j \in inked : i >= j)

\* C17: the line readline returns is the reference line of the bytes its
\* loop has taken, trimmed
C17_LineEqualsReference ==
    rl_status = "line" =>
        rl_line = trimmed(reference_edit(rl_taken, <<>>))

\* a returned line that went through a negotiation sequence, an erasure and
\* a trim
C17_Witness ==
    /\ rl_status = "line"
    /\ Len(rl_taken) = MaxBytes
    /\ \/ rl_line = <<97>> /\ \E i \in 1..Len(rl_taken) : rl_taken[i] = 255
       \/ rl_line = <<97>> /\ \E i \in 1..Len(rl_taken) : rl_taken[i] = 32
       \/ rl_line = <<>> /\ rl_taken[1] = 97 /\ rl_taken[2] = 8

\* the bytes with every printable one replaced by "*"
masked(bytes) ==
    [i \in 1..Len(bytes) |->
        IF bytes[i] \in 32..126 THEN 42 ELSE bytes[i]]

\* what an echoing reader writes for a byte sequence, n bytes being in the
\* buffer
RECURSIVE reference_echo(_, _)
reference_echo(bytes, n) ==
    IF bytes = <<>> THEN <<>>
    ELSE LET b == Head(bytes)
         IN  IF b = 255
             THEN reference_echo(
                     SubSeq(bytes,
                            IF Len(bytes) >= 2 /\ bytes[2] \in 251..254
                            THEN 4 ELSE 3,
                            Len(bytes)),
                     n)
             ELSE IF b \in {CR, LF} THEN <<CR, LF, 255, 252, 1>>
             ELSE IF b \in {8, 127}
             THEN IF n > 0
                  THEN <<8, 32, 8>> \o reference_echo(Tail(bytes), n - 1)
                  ELSE reference_echo(Tail(bytes), 0)
             ELSE IF b \in 32..126
             THEN <<b>> \o reference_echo(Tail(bytes), n + 1)
             ELSE reference_echo(Tail(bytes), n)

\* C18: without echo, what readline has written is what an echoing reader
\* writes for the masked input: the output is a function of the input with
\* every printable byte replaced by "*", so two inputs that differ only in
\* which printable bytes were typed give the same output
C18_MaskedOutput ==
    (~rl_echo /\ rl_out # <<>>) =>
        rl_out = <<255, 251, 1>> \o
                 reference_echo(
                    masked(IF rl_pc = "eol"
                           THEN SubSeq(rl_taken, 1, Len(rl_taken) - 1)
                           ELSE rl_taken),
                    0)

\* a line without echo in which two different printable bytes were typed
C18_Witness ==
    /\ ~rl_echo
    /\ rl_status = "line"
    /\ \E i, j \in 1..Len(rl_taken) : rl_taken[i] = 97 /\ rl_taken[j] = 32
    /\ rl_line = <<97>>

(***************************************************************************)
(* commands.py, broadcast.py, player.py: say across several sessions.      *)
(* Login, move and the end of a connection are taken in the steps that     *)
(* matter to the room sets: login up to the row read by add_player, the    *)
(* registration, a move up to its database write, the write, the finally   *)
(* block.                                                                  *)
(***************************************************************************)
NumChatSessions == 3
NumChatPlayers == 2
MaxChatMoves == 2
MaxSays == 1

ChatSessions == 1..NumChatSessions
ChatPids == 1..NumChatPlayers

\* the directions the players type: between alamo_plaza and mission
ChatDirections == {"north", "south"}

\* what the players say: a line with a keyword of the NPC, a line without
Says == {"hello", "xyzzy"}

\* an NPC with the keyword entry "hello|hi": NPC.check_keywords returns its
\* response for a line with a trigger, None otherwise
check_keywords(message) ==
    IF message = "hello" THEN "Well hello there!" ELSE None

\* the room the NPC stands in
NpcChatRoom == starting_room

\* ROOM_MESSAGE_FORMAT.format(username=username, message=message), sent to
\* the players of room_id
room_message(username, room_id, message) ==
    [kind |-> "Room", username |-> username, room |-> room_id,
     text |-> message]

InitChat ==
    /\ c_pc = [s \in ChatSessions |-> "out"]
    /\ c_id = [s \in ChatSessions |-> NoId]
    /\ c_active = [s \in ChatSessions |-> TRUE]
    /\ c_srv = [p \in ChatPids |-> NoId]
    /\ c_registry = [p \in ChatPids |-> NoId]
    /\ c_room = [s \in ChatSessions |-> None]
    /\ c_players = [r \in Rooms |-> {}]
    /\ c_db = [p \in ChatPids |-> None]
    /\ c_data = [s \in ChatSessions |-> None]
    /\ c_dest = [s \in ChatSessions |-> None]
    /\ c_heard = [s \in ChatSessions |->
                     [kind |-> "none", username |-> NoId, room |-> None,
                      text |-> ""]]
    /\ c_nmoves = 0
    /\ c_nsay = 0

\* AuthManager.handle_login with a good password, _complete_login and
\* add_player up to the row db.get_player_by_id returns: a session of the
\* same account is marked inactive, this session is bound to the id
chat_login(s, p) ==
    /\ c_pc[s] = "out"
    /\ c_active' = IF c_srv[p] # NoId
                   THEN [c_active EXCEPT ![c_srv[p]] = FALSE]
                   ELSE c_active
    /\ c_id' = [c_id EXCEPT ![s] = p]
    /\ c_srv' = [c_srv EXCEPT ![p] = s]
    /\ c_data' = [c_data EXCEPT ![s] = c_db[p]]
    /\ c_pc' = [c_pc EXCEPT ![s] = "ap_db"]
    /\ UNCHANGED <<c_registry, c_room, c_players, c_db, c_dest, c_heard,
                   c_nmoves, c_nsay>>
    /\ UNCHANGED nonChatVars

\* PlayerManager.add_player after its await: the room of the row or the
\* default room, the registry entry, the room set
chat_add_player(s) ==
    /\ c_pc[s] = "ap_db"
    /\ LET room_id == IF c_data[s] # None THEN c_data[s] ELSE starting_room
       IN  /\ c_room' = [c_room EXCEPT ![s] = room_id]
           /\ c_players' = [c_players EXCEPT ![room_id] = @ \cup {c_id[s]}]
    /\ c_registry' = [c_registry EXCEPT ![c_id[s]] = s]
    /\ c_data' = [c_data EXCEPT ![s] = None]
    /\ c_pc' = [c_pc EXCEPT ![s] = "in"]
    /\ UNCHANGED <<c_id, c_active, c_srv, c_db, c_dest, c_heard, c_nmoves,
                   c_nsay>>
    /\ UNCHANGED nonChatVars

\* _move_player through an exit, with Player.move_to_room up to its await on
\* db.update_player_room; the Player is the one the registry holds for the
\* id of the session
chat_move(s, direction) ==
    /\ c_pc[s] = "in"
    /\ c_nmoves < MaxChatMoves
    /\ c_registry[c_id[s]] # NoId
    /\ LET player == c_registry[c_id[s]]
           dest == WorldExits[c_room[player]][direction]
       IN  /\ dest # None
           /\ c_players' = move_player(c_players, c_id[s], c_room[player],
                                       dest)
           /\ c_room' = [c_room EXCEPT ![player] = dest]
           /\ c_dest' = [c_dest EXCEPT ![s] = dest]
    /\ c_nmoves' = c_nmoves + 1
    /\ c_pc' = [c_pc EXCEPT ![s] = "mv_db"]
    /\ UNCHANGED <<c_id, c_active, c_srv, c_registry, c_db, c_data, c_heard,
                   c_nsay>>
    /\ UNCHANGED nonChatVars

\* Player.move_to_room after db.update_player_room; the handler returns and
\* the main loop tests is_active
chat_move_saved(s) ==
    /\ c_pc[s] = "mv_db"
    /\ c_db' = [c_db EXCEPT ![c_id[s]] = c_dest[s]]
    /\ c_dest' = [c_dest EXCEPT ![s] = None]
    /\ c_pc' = [c_pc EXCEPT ![s] = IF c_active[s] THEN "in" ELSE "finally"]
    /\ UNCHANGED <<c_id, c_active, c_srv, c_registry, c_room, c_players,
                   c_data, c_heard, c_nmoves, c_nsay>>
    /\ UNCHANGED nonChatVars

\* cmd_say with a message: the Player of the registry, its rate limit
\* (allowed), broadcast_room_message to the room of that Player, sent to
\* the active clients of the Players get_players_in_room finds
chat_say(s, message, allowed) ==
    /\ c_pc[s] = "in"
    /\ c_nsay < MaxSays
    /\ c_registry[c_id[s]] # NoId
    /\ c_nsay' = c_nsay + 1
    /\ LET player == c_registry[c_id[s]]
           tasks == broadcast_tasks(
                       get_players_in_room(c_registry, c_players,
                                           c_room[player]),
                       NoId)
       IN  c_heard' =
              IF ~allowed THEN c_heard
              ELSE [x \in ChatSessions |->
                      IF c_active[x] /\ \E p \in tasks : c_registry[p] = x
                      THEN room_message(c_id[player], c_room[player], message)
                      ELSE c_heard[x]]
    /\ c_pc' = [c_pc EXCEPT ![s] = IF c_active[s] THEN "in" ELSE "finally"]
    /\ UNCHANGED <<c_id, c_active, c_srv, c_registry, c_room, c_players,
                   c_db, c_data, c_dest, c_nmoves>>
    /\ UNCHANGED nonChatVars

\* the connection ends (the peer closed, or the loop found is_active false):
\* the finally block with remove_player, Client.disconnect and the deletion
\* from server.active_players
chat_finally(s) ==
    /\ c_pc[s] \in {"in", "finally"}
    /\ LET player == c_registry[c_id[s]]
       IN  IF player # NoId
           THEN /\ c_players' = [c_players EXCEPT ![c_room[player]] =
                                                     @ \ {c_id[s]}]
                /\ c_registry' = [c_registry EXCEPT ![c_id[s]] = NoId]
           ELSE UNCHANGED <<c_players, c_registry>>
    /\ c_active' = [c_active EXCEPT ![s] = FALSE]
    /\ c_srv' = [c_srv EXCEPT ![c_id[s]] = NoId]
    /\ c_pc' = [c_pc EXCEPT ![s] = "closed"]
    /\ UNCHANGED <<c_id, c_room, c_db, c_data, c_dest, c_heard, c_nmoves,
                   c_nsay>>
    /\ UNCHANGED nonChatVars

NextChat ==
    \E s \in ChatSessions :
        \/ \E p \in ChatPids : chat_login(s, p)
        \/ chat_add_player(s)
        \/ \E direction \in ChatDirections : chat_move(s, direction)
        \/ chat_move_saved(s)
        \/ \E message \in Says, allowed \in BOOLEAN :
              chat_say(s, message, allowed)
        \/ chat_finally(s)

\* session o holds the registered Player of its id
Registered(o) == c_id[o] # NoId /\ c_registry[c_id[o]] = o

\* C19: a say that is let through reaches every active registered player
\* whose current room is the speaker's room, the speaker included, as the
\* [Room] line with the speaker's name and the message, and reaches no
\* registered player whose current room is another room
C19_SayReachesTheRoom ==
    [][\A s \in ChatSessions, message \in Says :
          chat_say(s, message, TRUE) =>
             LET player == c_registry[c_id[s]]
             IN  \A o \in ChatSessions :
                    /\ (Registered(o) /\ c_active[o]
                           /\ c_room[o] = c_room[player]) =>
                          c_heard'[o] = room_message(c_id[player],
                                                     c_room[player], message)
                    /\ (Registered(o) /\ c_room[o] # c_room[player]) =>
                          c_heard'[o] = c_heard[o]]_vars

\* C20: a session that was sent a [Room] line with a keyword of the NPC,
\* spoken in the room of the NPC, is sent the [NPC] line of the response
\* in the end, unless it leaves the main loop first (the response delay is
\* 1.5 s, a silent session stays in the loop for IDLE_TIMEOUT seconds)
C20_NpcAnswersKeyword ==
    \A s \in ChatSessions :
        [](/\ c_pc[s] = "in"
           /\ c_heard[s].kind = "Room"
           /\ c_heard[s].room = NpcChatRoom
           /\ check_keywords(c_heard[s].text) # None
           => <>(\/ c_heard[s].kind = "NPC" /\ c_heard[s].room = NpcChatRoom
                 \/ c_pc[s] # "in"))

(***************************************************************************)
(* The order of delivery.  A sender task is a command handler or a         *)
(* background task; it emits its messages one after the other, each by a   *)
(* direct Client.send or by a broadcast.  A broadcast hands one            *)
(* _send_to_player coroutine per recipient to asyncio.gather and waits for *)
(* all of them; Client.send writes to the transport before its first       *)
(* suspension, the drain.  A message is named by its sender and its        *)
(* number among the messages of that sender.                               *)
(***************************************************************************)
NumSenders == 2
NumRecipients == 2
MaxEmits == 2

Senders == 1..NumSenders
Recipients == 1..NumRecipients

InitFifo ==
    /\ f_pc = [s \in Senders |-> "idle"]
    /\ f_emitted = [s \in Senders |-> 0]
    /\ f_tasks = {}
    /\ f_wire = [r \in Recipients |-> <<>>]
    /\ f_active = [r \in Recipients |-> TRUE]
    /\ f_closing = [r \in Recipients |-> FALSE]

\* writer.write of Client.send: skipped when the client is not active or the
\* transport is closing
writer_write(wire, r, msg) ==
    IF f_active[r] /\ ~f_closing[r]
    THEN [wire EXCEPT ![r] = Append(@, msg)]
    ELSE wire

\* await client.send(message) by the sender itself: the write, then the drain
fifo_send(s, r) ==
    /\ f_pc[s] = "idle"
    /\ f_emitted[s] < MaxEmits
    /\ f_emitted' = [f_emitted EXCEPT ![s] = @ + 1]
    /\ f_wire' = writer_write(f_wire, r, <<s, f_emitted[s] + 1>>)
    /\ f_pc' = [f_pc EXCEPT ![s] =
                    IF f_active[r] /\ ~f_closing[r] THEN "drain" ELSE "idle"]
    /\ f_tasks' = f_tasks \cup
                    (IF f_active[r] /\ ~f_closing[r]
                     THEN {[sender |-> s, seq |-> f_emitted[s] + 1, to |-> r,
                            pc |-> "drain"]}
                     ELSE {})
    /\ UNCHANGED <<f_active, f_closing>>
    /\ UNCHANGED nonFifoVars

\* broadcast_to_room / broadcast_to_all: one coroutine per player found
fifo_broadcast(s, players) ==
    /\ f_pc[s] = "idle"
    /\ f_emitted[s] < MaxEmits
    /\ f_emitted' = [f_emitted EXCEPT ![s] = @ + 1]
    /\ f_tasks' = f_tasks \cup
                    {[sender |-> s, seq |-> f_emitted[s] + 1, to |-> r,
                      pc |-> "created"] : r \in players}
    /\ f_pc' = [f_pc EXCEPT ![s] = IF players = {} THEN "idle" ELSE "gather"]
    /\ UNCHANGED <<f_wire, f_active, f_closing>>
    /\ UNCHANGED nonFifoVars

\* _send_to_player up to the drain of Client.send
fifo_task_run(t) ==
    /\ t \in f_tasks
    /\ t.pc = "created"
    /\ f_wire' = IF f_active[t.to]
                 THEN writer_write(f_wire, t.to, <<t.sender, t.seq>>)
                 ELSE f_wire
    /\ f_tasks' = (f_tasks \ {t}) \cup
                    (IF f_active[t.to] /\ ~f_closing[t.to]
                     THEN {[t EXCEPT !.pc = "drain"]}
                     ELSE {})
    /\ UNCHANGED <<f_pc, f_emitted, f_active, f_closing>>
    /\ UNCHANGED nonFifoVars

\* writer.drain() returns, or raises ConnectionError and the client is
\* marked inactive
fifo_drained(t, raised) ==
    /\ t \in f_tasks
    /\ t.pc = "drain"
    /\ f_tasks' = f_tasks \ {t}
    /\ f_active' = IF raised THEN [f_active EXCEPT ![t.to] = FALSE]
                   ELSE f_active
    /\ UNCHANGED <<f_pc, f_emitted, f_wire, f_closing>>
    /\ UNCHANGED nonFifoVars

\* the sender goes on when what it awaits is finished
gather_done_unawaited(tasks, s) == TRUE

gather_done(tasks, s) == \A t \in tasks : t.sender # s

fifo_resume(s) ==
    /\ f_pc[s] \in {"gather", "drain"}
    /\ gather_done(f_tasks, s)
    /\ f_pc' = [f_pc EXCEPT ![s] = "idle"]
    /\ UNCHANGED <<f_emitted, f_tasks, f_wire, f_active, f_closing>>
    /\ UNCHANGED nonFifoVars

\* the peer goes away: the transport starts closing
fifo_closing(r) ==
    /\ ~f_closing[r]
    /\ f_closing' = [f_closing EXCEPT ![r] = TRUE]
    /\ UNCHANGED <<f_pc, f_emitted, f_tasks, f_wire, f_active>>
    /\ UNCHANGED nonFifoVars

NextFifo ==
    \/ \E s \in Senders, r \in Recipients : fifo_send(s, r)
    \/ \E s \in Senders, players \in SUBSET Recipients :
            fifo_broadcast(s, players)
    \/ \E t \in f_tasks : fifo_task_run(t)
    \/ \E t \in f_tasks, raised \in BOOLEAN : fifo_drained(t, raised)
    \/ \E s \in Senders : fifo_resume(s)
    \/ \E r \in Recipients : fifo_closing(r)

\* C21: on the transport of every recipient, the messages of any one sender
\* stand in the order in which that sender emitted them, whatever other
\* senders wrote in between.
C21_EmissionOrder ==
    \A r \in Recipients :
        \A i, j \in 1..Len(f_wire[r]) :
            (i < j /\ f_wire[r][i][1] = f_wire[r][j][1])
                => f_wire[r][i][2] < f_wire[r][j][2]

\* two messages of one sender, one sent and one broadcast, with a message of
\* another sender written between them
C21_Witness ==
    \E r \in Recipients :
        /\ Len(f_wire[r]) >= 3
        /\ f_wire[r][1] = <<1, 1>>
        /\ f_wire[r][2][1] = 2
        /\ f_wire[r][3] = <<1, 2>>


(***************************************************************************)
(* tick_scheduler.py: the tick loop and its scheduled tasks.  Time is in   *)
(* seconds.  A callback is given by how its call ends: it returns, it      *)
(* raises, or it unregisters its own task and returns (as the NPC          *)
(* callbacks do when their NPC is gone).                                   *)
(***************************************************************************)
NumTasks == 2           \* task ids of the tick model
TickTimeStep == 1       \* seconds between two instants of the tick model
TickHorizon == 2        \* seconds of the run of the tick model

TaskIds == 1..NumTasks
TaskIntervals == {TickTimeStep, 2 * TickTimeStep}
Outcomes == {"ok", "raise", "unregister"}

\* TickScheduler(tick_interval=1.0)
base_tick_interval == 1

\* datetime.min, as seconds before the start of the run
datetime_min == -1000000

NoTask == [enabled |-> FALSE, interval |-> 0, last_run |-> datetime_min]

InitTick ==
    /\ tk_tasks = [t \in TaskIds |-> NoTask]
    /\ tk_now = 0
    /\ tk_running = FALSE
    /\ tk_pc = "none"
    /\ tk_wake = 0
    /\ tk_coros = {}
    /\ tk_raised = {}
    /\ tk_last = [t \in TaskIds |-> "none"]
    /\ tk_loops = 0

\* a should_run that does not look at the enabled flag
should_run_disabled_too(task, instant) ==
    instant - task.last_run >= task.interval

\* ScheduledTask.should_run
should_run(task, instant) ==
    IF ~task.enabled THEN FALSE
    ELSE instant - task.last_run >= task.interval

\* TickScheduler.register_task; asked for an id that is registered it
\* changes nothing
register_task(t, interval) ==
    /\ tk_tasks[t] = NoTask
    /\ t \notin tk_coros
    /\ tk_tasks' = [tk_tasks EXCEPT ![t] =
                        [enabled |-> TRUE, interval |-> interval,
                         last_run |-> tk_now]]
    /\ UNCHANGED <<tk_now, tk_running, tk_pc, tk_wake, tk_coros, tk_raised,
                   tk_last, tk_loops>>
    /\ UNCHANGED nonTickVars

unregister_task(t) ==
    /\ tk_tasks[t] # NoTask
    /\ tk_tasks' = [tk_tasks EXCEPT ![t] = NoTask]
    /\ UNCHANGED <<tk_now, tk_running, tk_pc, tk_wake, tk_coros, tk_raised,
                   tk_last, tk_loops>>
    /\ UNCHANGED nonTickVars

enable_task(t) ==
    /\ tk_tasks[t] # NoTask
    /\ ~tk_tasks[t].enabled
    /\ tk_tasks' = [tk_tasks EXCEPT ![t].enabled = TRUE]
    /\ UNCHANGED <<tk_now, tk_running, tk_pc, tk_wake, tk_coros, tk_raised,
                   tk_last, tk_loops>>
    /\ UNCHANGED nonTickVars

disable_task(t) ==
    /\ tk_tasks[t] # NoTask
    /\ tk_tasks[t].enabled
    /\ tk_tasks' = [tk_tasks EXCEPT ![t].enabled = FALSE]
    /\ UNCHANGED <<tk_now, tk_running, tk_pc, tk_wake, tk_coros, tk_raised,
                   tk_last, tk_loops>>
    /\ UNCHANGED nonTickVars

\* a start that creates a tick loop whether or not one is running
start_creates_always(running) == TRUE

\* TickScheduler.start returns at once when the scheduler is running
start_creates(running) == ~running

\* TickScheduler.start: the tick loop becomes a task of the event loop
tick_start ==
    /\ IF start_creates(tk_running)
       THEN /\ tk_running' = TRUE
            /\ tk_pc' = "start"
            /\ tk_loops' = tk_loops + 1
            /\ UNCHANGED <<tk_tasks, tk_now, tk_wake, tk_coros, tk_raised,
                           tk_last>>
       ELSE UNCHANGED tickVars
    /\ UNCHANGED nonTickVars

\* TickScheduler.stop: the tick loop is cancelled where it is suspended, and
\* with it the coroutines its gather still waits for
tick_stop ==
    /\ IF tk_running
       THEN /\ tk_running' = FALSE
            /\ tk_pc' = "stopped"
            /\ tk_coros' = {}
            /\ tk_loops' = tk_loops - 1
            /\ UNCHANGED <<tk_tasks, tk_now, tk_wake, tk_raised, tk_last>>
       ELSE UNCHANGED tickVars
    /\ UNCHANGED nonTickVars

\* _notify_time_change: the movement tasks of the NPCs whose schedule names
\* another room for the new period get last_run = datetime.min
notify_time_change(tasks, hurried) ==
    [t \in TaskIds |->
        IF t \in hurried /\ tasks[t] # NoTask
        THEN [tasks[t] EXCEPT !.last_run = datetime_min]
        ELSE tasks[t]]

\* one pass of _tick_loop from its start, or from the end of its sleep, to
\* its next await: the gather over the tasks that should run, or the sleep
tick_begin(hurried) ==
    /\ tk_running
    /\ \/ tk_pc = "start"
       \/ tk_pc = "sleep" /\ tk_now >= tk_wake
    /\ tk_tasks' = notify_time_change(tk_tasks, hurried)
    /\ LET tasks_to_run ==
               {t \in TaskIds :
                    /\ notify_time_change(tk_tasks, hurried)[t] # NoTask
                    /\ should_run(notify_time_change(tk_tasks, hurried)[t],
                                  tk_now)}
       IN  /\ tk_coros' = tasks_to_run
           /\ tk_pc' = IF tasks_to_run = {} THEN "sleep" ELSE "gather"
           /\ tk_wake' = IF tasks_to_run = {} THEN tk_now + base_tick_interval
                         ELSE tk_wake
    /\ UNCHANGED <<tk_now, tk_running, tk_raised, tk_last, tk_loops>>
    /\ UNCHANGED nonTickVars

\* the except clause of ScheduledTask.run: the error is logged
run_except_disables(task) == [task EXCEPT !.enabled = FALSE]

run_except(task) == task

\* ScheduledTask.run of one coroutine of the gather
task_run(t, outcome) ==
    /\ tk_pc = "gather"
    /\ t \in tk_coros
    /\ tk_coros' = tk_coros \ {t}
    /\ tk_last' = [tk_last EXCEPT ![t] = outcome]
    /\ tk_raised' = IF outcome = "raise" THEN tk_raised \cup {t} ELSE tk_raised
    /\ LET ran == [tk_tasks[t] EXCEPT !.last_run = tk_now]
       IN  tk_tasks' =
               IF tk_tasks[t] = NoTask \/ outcome = "unregister"
               THEN [tk_tasks EXCEPT ![t] = NoTask]
               ELSE IF outcome = "raise"
               THEN [tk_tasks EXCEPT ![t] = run_except(ran)]
               ELSE [tk_tasks EXCEPT ![t] = ran]
    /\ UNCHANGED <<tk_now, tk_running, tk_pc, tk_wake, tk_loops>>
    /\ UNCHANGED nonTickVars

\* the gather of the tick loop returns, the loop goes to sleep
tick_gather_returns ==
    /\ tk_pc = "gather"
    /\ tk_coros = {}
    /\ tk_pc' = "sleep"
    /\ tk_wake' = tk_now + base_tick_interval
    /\ UNCHANGED <<tk_tasks, tk_now, tk_running, tk_coros, tk_raised,
                   tk_last, tk_loops>>
    /\ UNCHANGED nonTickVars

TickElapse ==
    /\ tk_now < TickHorizon
    /\ tk_now' = tk_now + TickTimeStep
    /\ UNCHANGED <<tk_tasks, tk_running, tk_pc, tk_wake, tk_coros, tk_raised,
                   tk_last, tk_loops>>
    /\ UNCHANGED nonTickVars

NextTick ==
    \/ \E t \in TaskIds, interval \in TaskIntervals : register_task(t, interval)
    \/ \E t \in TaskIds : unregister_task(t)
    \/ \E t \in TaskIds : enable_task(t)
    \/ \E t \in TaskIds : disable_task(t)
    \/ tick_start
    \/ tick_stop
    \/ \E hurried \in SUBSET TaskIds : tick_begin(hurried)
    \/ \E t \in TaskIds, outcome \in Outcomes : task_run(t, outcome)
    \/ tick_gather_returns
    \/ TickElapse

\* the callback of task t raises in this step
CallbackRaises(t) ==
    /\ t \in tk_coros
    /\ t \notin tk_coros'
    /\ tk_running'
    /\ tk_last'[t] = "raise"

\* a pass of the tick loop collects the tasks to run in this step
TickCollects ==
    /\ tk_pc \in {"start", "sleep"}
    /\ tk_pc' \in {"gather", "sleep"}
    /\ tk_running
    /\ tk_wake' # tk_wake \/ tk_pc' = "gather"

\* C23: when the callback of a scheduled task raises, the tick loop stays
\* in its gather, the other coroutines of the same tick are still to run,
\* and the task stays registered and enabled as it was; and every pass of the
\* loop collects each enabled task whose interval has elapsed, whether its
\* last run raised or not.
C23_FailureContained ==
    [][/\ \A t \in TaskIds :
            CallbackRaises(t) =>
                /\ tk_pc' = "gather"
                /\ tk_coros' = tk_coros \ {t}
                /\ tk_tasks[t] # NoTask =>
                        tk_tasks' = [tk_tasks EXCEPT ![t].last_run = tk_now]
       /\ TickCollects =>
            \A t \in tk_raised :
                (/\ tk_tasks'[t] # NoTask
                 /\ tk_tasks'[t].enabled
                 /\ tk_now - tk_tasks'[t].last_run >= tk_tasks'[t].interval)
                    => t \in tk_coros']_vars

\* a task whose callback raised was run again later, and the callback of the
\* other task was called as well
C23_Witness ==
    \E t \in tk_raised :
        /\ tk_last[t] = "ok"
        /\ tk_tasks[t] # NoTask
        /\ tk_tasks[t].enabled
        /\ \E o \in TaskIds \ {t} : tk_last[o] = "ok"

(***************************************************************************)
(* room_loader.py: load_all_rooms after the rooms of all zones are loaded. *)
(* The room definitions are the input: for each room, in the order of the  *)
(* files, the exits it declares.  _create_connections takes the declared   *)
(* exits room by room; within a room the order is that of the mapping in   *)
(* the file, which is any order.                                           *)
(***************************************************************************)
NumLoadedRooms == 2

LoadedRooms == 1..NumLoadedRooms
\* a target id that names no loaded room, and the absence of an exit
MissingRoom == 0
NoExit == -1
DeclDirections == {"north", "south", "east"}
LoaderDirections == {"north", "south", "east", "west"}

\* opposite_directions.get(direction) of RoomLoader._create_connections
opposite_directions(d) ==
    CASE d = "north" -> "south"
      [] d = "south" -> "north"
      [] d = "east"  -> "west"
      [] d = "west"  -> "east"
      [] OTHER       -> None

\* the definitions a zone file can hold for the loaded rooms
RoomDefinitions ==
    [LoadedRooms ->
        [DeclDirections -> LoadedRooms \cup {MissingRoom, NoExit}]]

\* _load_room: the exits of a definition, as RoomLoader.connections
connections_of(decl) ==
    {<<r, d>> : r \in LoadedRooms, d \in DeclDirections} \cap
    {x \in LoadedRooms \X DeclDirections : decl[x[1]][x[2]] # NoExit}

InitLoader ==
    /\ ld_decl \in RoomDefinitions
    /\ ld_validate \in BOOLEAN
    /\ ld_pending = connections_of(ld_decl)
    /\ ld_exits = [r \in LoadedRooms |-> [d \in LoaderDirections |-> NoExit]]
    /\ ld_created = {}
    /\ ld_warnings = {}
    /\ ld_pc = "connect"

\* one round of the loop of _create_connections
create_connection(from_room_id, direction) ==
    /\ ld_pc = "connect"
    /\ <<from_room_id, direction>> \in ld_pending
    /\ \A x \in ld_pending : x[1] >= from_room_id
    /\ ld_pending' = ld_pending \ {<<from_room_id, direction>>}
    /\ LET to_room_id == ld_decl[from_room_id][direction]
           conn_key == {from_room_id, to_room_id}
           opposite == opposite_directions(direction)
           forward == [ld_exits EXCEPT ![from_room_id][direction] = to_room_id]
       IN  IF to_room_id \notin LoadedRooms
           THEN UNCHANGED <<ld_exits, ld_created>>
           ELSE /\ ld_created' = ld_created \cup {conn_key}
                /\ ld_exits' =
                      IF /\ conn_key \notin ld_created
                         /\ opposite # None
                         /\ forward[to_room_id][opposite] = NoExit
                      THEN [forward EXCEPT ![to_room_id][opposite] =
                                               from_room_id]
                      ELSE forward
    /\ UNCHANGED <<ld_decl, ld_validate, ld_warnings, ld_pc>>
    /\ UNCHANGED nonLoaderVars

\* "Check if target has a connection back" of _validate_connections
has_return(exits, room_id, target_id) ==
    \E back \in LoaderDirections : exits[target_id][back] = room_id

\* _validate_connections: the pairs that are logged
validate_connections(exits) ==
    {<<room_id, exits[room_id][direction]>> :
        room_id \in LoadedRooms, direction \in LoaderDirections} \cap
    {x \in LoadedRooms \X (LoadedRooms \cup {MissingRoom}) :
        \/ x[2] = MissingRoom
        \/ ~has_return(exits, x[1], x[2])}

\* load_all_rooms after _create_connections: the validation when the
\* settings ask for it
load_all_rooms_validate ==
    /\ ld_pc = "connect"
    /\ ld_pending = {}
    /\ ld_warnings' = IF ld_validate THEN validate_connections(ld_exits)
                      ELSE {}
    /\ ld_pc' = "loaded"
    /\ UNCHANGED <<ld_decl, ld_validate, ld_pending, ld_exits, ld_created>>
    /\ UNCHANGED nonLoaderVars

NextLoader ==
    \/ \E r \in LoadedRooms, d \in DeclDirections : create_connection(r, d)
    \/ load_all_rooms_validate

\* C25: in the loaded and validated world, every exit of a room R in a
\* direction D to a room T is answered by the exit of T in the opposite
\* direction leading back to R, or the validator has logged the pair R -> T.
C25_NoSilentAsymmetry ==
    (ld_pc = "loaded" /\ ld_validate) =>
        \A r \in LoadedRooms : \A d \in LoaderDirections :
            ld_exits[r][d] \in LoadedRooms =>
                \/ ld_exits[ld_exits[r][d]][opposite_directions(d)] = r
                \/ <<r, ld_exits[r][d]>> \in ld_warnings

(***************************************************************************)
(* npcs.py and tick_scheduler.py: the movement task over whole days.  The  *)
(* clock is the time of day: NPC.get_next_room reads the hour of now and   *)
(* the seconds component of now - last_moved, both of which only depend on *)
(* the times of day.                                                       *)
(***************************************************************************)
\* the clock advances by one period of the day
NpcDayStep == 6 * HourSeconds

\* an NPC.movement with two allowed rooms: no schedule, a schedule whose
\* morning room is not an allowed room, a schedule that names that room for
\* every period
DayMovements ==
    {[present |-> TRUE,
      allowed_rooms |-> {"alamo_plaza", "river_walk_north"},
      schedule |-> sch] :
        sch \in {NoSchedule,
                 [NoSchedule EXCEPT !["morning"] = "pearl"],
                 [p \in Periods |-> "pearl"]}}

\* the NPC engine at midnight: nothing registered, no saved row
InitNpcDay ==
    /\ npcs = {}
    /\ current_room = [n \in NpcIds |-> None]
    /\ room_npcs = [r \in Rooms |-> {}]
    /\ room_obj_npcs = [r \in Rooms |-> {}]
    /\ npc_state = [n \in NpcIds |-> NoRow]
    /\ last_moved = [n \in NpcIds |-> 0]
    /\ npc_now = 0
    /\ movement = [n \in NpcIds |-> NoMovement]
    /\ move_pc = [n \in NpcIds |-> "idle"]
    /\ move_dest = [n \in NpcIds |-> None]
    /\ move_old = [n \in NpcIds |-> None]
    /\ move_tasks = {}
    /\ last_tick = [n \in NpcIds |-> "none"]
    /\ next_room = [n \in NpcIds |-> None]
    /\ n_registry = [p \in NpcPids |-> NoId]
    /\ n_players = [r \in Rooms |-> {}]

\* a period of the day passes
NpcDayElapse ==
    /\ npc_now' = (npc_now + NpcDayStep) % DaySeconds
    /\ UNCHANGED <<npcs, current_room, room_npcs, room_obj_npcs, npc_state,
                   last_moved, movement>>
    /\ UNCHANGED <<npcTaskVars, npcPlayerVars>>
    /\ UNCHANGED nonNpcVars

\* the run of the movement task in which the probability roll succeeds and
\* the move is started
MoveStarts(n) ==
    /\ \E pick \in NpcRooms \cup {None} : check_npc_movement(n, TRUE, pick)
    /\ move_pc'[n] # "idle"

NextNpcDay ==
    \/ \E n \in NpcIds, mv \in DayMovements, r \in NpcRooms :
          register_npc(n, mv, r)
    \/ \E n \in NpcIds : register_npc_movement(n)
    \/ NpcDayElapse
    \/ \E p \in NpcPids, r \in NpcRooms : npc_add_player(p, r)
    \/ \E p \in NpcPids : npc_remove_player(p)
    \/ \E n \in NpcIds, roll \in BOOLEAN, pick \in NpcRooms \cup {None} :
          check_npc_movement(n, roll, pick)
    \/ \E n \in NpcIds : move_npc_departed(n)
    \/ \E n \in NpcIds : move_npc_arrived(n)

\* the NPC is registered with a movement task, it is not inside a move, one
\* of its allowed rooms is not its current room and no player is in its room
CanWander(n) ==
    /\ n \in npcs /\ n \in move_tasks
    /\ move_pc[n] = "idle"
    /\ movement[n].present
    /\ movement[n].allowed_rooms \ {current_room[n]} # {}
    /\ get_players_in_room(n_registry, n_players, current_room[n]) = {}

\* C32: an NPC with a movement task, an allowed room other than its current
\* room and no player in its room eventually starts a move (or a player comes
\* into its room), whatever its schedule contains
C32_EventuallyMoves ==
    \A n \in NpcIds : CanWander(n) ~> (move_pc[n] # "idle" \/ ~CanWander(n))

(***************************************************************************)
(* tick_scheduler.py: the movement and the ambient task of the NPCs under  *)
(* the tick loop (register_npc_movement, register_npc_ambient,             *)
(* _notify_time_change), from a moment before noon on.  A callback is one  *)
(* step; the steps of a move are those of the NPC model.                   *)
(***************************************************************************)
NumSchedNpcs == 2       \* NPCs of this model
SchedTimeStep == 1      \* seconds between two instants
SchedHorizon == 2       \* seconds of the run

SchedNpcs == 1..NumSchedNpcs
SchedRooms == {"alamo_plaza", "river_walk_north"}
TaskKinds == {"npc_move", "npc_ambient"}
\* the ids of the tasks: npc_move_<id> and npc_ambient_<id>
TaskKeys == TaskKinds \X SchedNpcs

\* the clock starts one step before 12:00
SchedStart == 12 * HourSeconds - SchedTimeStep

\* NPC.movement['schedule'] of the NPCs of this model: no entry, or an entry
\* for the afternoon
SchedSchedules ==
    {NoSchedule} \cup
    {[NoSchedule EXCEPT !["afternoon"] = r] : r \in SchedRooms}

InitSched ==
    /\ sc_npcs = {}
    /\ sc_room = [n \in SchedNpcs |-> None]
    /\ sc_sched = [n \in SchedNpcs |-> NoSchedule]
    /\ sc_tasks = [k \in TaskKeys |-> NoTask]
    /\ sc_now = SchedStart
    /\ sc_period = time_period(hour_of(SchedStart))
    /\ sc_running = FALSE
    /\ sc_pc = "none"
    /\ sc_wake = 0
    /\ sc_coros = {}
    /\ sc_ran = [k \in TaskKeys |-> "none"]

\* NPCLoader.initialize_npcs: an NPC is registered and placed in its room
sched_register_npc(n, room_id, schedule) ==
    /\ n \notin sc_npcs
    /\ ~sc_running
    /\ sc_npcs' = sc_npcs \cup {n}
    /\ sc_room' = [sc_room EXCEPT ![n] = room_id]
    /\ sc_sched' = [sc_sched EXCEPT ![n] = schedule]
    /\ UNCHANGED <<sc_tasks, sc_now, sc_period, sc_running, sc_pc, sc_wake,
                   sc_coros, sc_ran>>
    /\ UNCHANGED nonSchedVars

\* NPCManager.unregister_npc: the NPC object is gone
sched_unregister_npc(n) ==
    /\ n \in sc_npcs
    /\ sc_npcs' = sc_npcs \ {n}
    /\ sc_room' = [sc_room EXCEPT ![n] = None]
    /\ sc_sched' = [sc_sched EXCEPT ![n] = NoSchedule]
    /\ UNCHANGED <<sc_tasks, sc_now, sc_period, sc_running, sc_pc, sc_wake,
                   sc_coros, sc_ran>>
    /\ UNCHANGED nonSchedVars

\* TickScheduler.register_npc_movement and register_npc_ambient, called by
\* MudServer._initialize_npcs before the scheduler is started; register_task
\* leaves a task that exists alone
register_npc_task(kind, n, interval) ==
    /\ n \in sc_npcs
    /\ ~sc_running
    /\ sc_tasks[<<kind, n>>] = NoTask
    /\ sc_tasks' = [sc_tasks EXCEPT ![<<kind, n>>] =
                        [enabled |-> TRUE, interval |-> interval,
                         last_run |-> sc_now]]
    /\ UNCHANGED <<sc_npcs, sc_room, sc_sched, sc_now, sc_period, sc_running,
                   sc_pc, sc_wake, sc_coros, sc_ran>>
    /\ UNCHANGED nonSchedVars

\* TickScheduler.start
sched_start ==
    /\ ~sc_running
    /\ sc_running' = TRUE
    /\ sc_pc' = "start"
    /\ UNCHANGED <<sc_npcs, sc_room, sc_sched, sc_tasks, sc_now, sc_period,
                   sc_wake, sc_coros, sc_ran>>
    /\ UNCHANGED nonSchedVars

\* a _notify_time_change that takes an entry naming the NPC's own room for
\* the only kind of entry
npcs_to_hurry_none(regd, rooms, scheds, tasks, new_period) ==
    {n \in regd :
        /\ scheds[n][new_period] # None
        /\ scheds[n][new_period] = rooms[n]
        /\ tasks[<<"npc_move", n>>] # NoTask}

\* _notify_time_change: the NPCs whose movement task gets
\* last_run = datetime.min
npcs_to_hurry(regd, rooms, scheds, tasks, new_period) ==
    {n \in regd :
        /\ scheds[n][new_period] # None
        /\ scheds[n][new_period] # rooms[n]
        /\ tasks[<<"npc_move", n>>] # NoTask}

\* one pass of _tick_loop up to its next await: a new period is noted and
\* the NPCs are notified, the tasks that should run are put into the gather
sched_tick_begin ==
    /\ sc_running
    /\ \/ sc_pc = "start"
       \/ sc_pc = "sleep" /\ sc_now >= sc_wake
    /\ LET new_period == time_period(hour_of(sc_now))
           hurried == IF new_period # sc_period
                      THEN npcs_to_hurry(sc_npcs, sc_room, sc_sched, sc_tasks,
                                         new_period)
                      ELSE {}
           notified == [k \in TaskKeys |->
                           IF k[1] = "npc_move" /\ k[2] \in hurried
                           THEN [sc_tasks[k] EXCEPT !.last_run = datetime_min]
                           ELSE sc_tasks[k]]
           tasks_to_run == {k \in TaskKeys :
                               /\ notified[k] # NoTask
                               /\ should_run(notified[k], sc_now)}
       IN  /\ sc_period' = new_period
           /\ sc_tasks' = notified
           /\ sc_coros' = tasks_to_run
           /\ sc_pc' = IF tasks_to_run = {} THEN "sleep" ELSE "gather"
           /\ sc_wake' = IF tasks_to_run = {} THEN sc_now + base_tick_interval
                         ELSE sc_wake
    /\ UNCHANGED <<sc_npcs, sc_room, sc_sched, sc_now, sc_running, sc_ran>>
    /\ UNCHANGED nonSchedVars

\* ScheduledTask.run sets the marker of a task that is still in the table
task_ran(tasks, k, instant) ==
    IF tasks[k] = NoTask THEN tasks
    ELSE [tasks EXCEPT ![k].last_run = instant]

\* a movement callback that leaves the task of a vanished NPC in the table
move_task_of_gone_npc_stays(tasks, k) == tasks

\* check_npc_movement without its NPC: unregister_task
move_task_of_gone_npc(tasks, k) == [tasks EXCEPT ![k] = NoTask]

\* ScheduledTask.run of check_npc_movement for NPC n.  Without the NPC the
\* task unregisters itself; otherwise the NPC stays (get_next_room gave no
\* room, a player is there, move_npc refused) or it is moved to dest
sched_check_npc_movement(n, dest) ==
    LET k == <<"npc_move", n>>
    IN  /\ sc_pc = "gather"
        /\ k \in sc_coros
        /\ sc_coros' = sc_coros \ {k}
        /\ IF n \notin sc_npcs
           THEN /\ sc_tasks' = move_task_of_gone_npc(
                                   task_ran(sc_tasks, k, sc_now), k)
                /\ sc_ran' = [sc_ran EXCEPT ![k] = "gone"]
                /\ UNCHANGED sc_room
           ELSE /\ sc_tasks' = task_ran(sc_tasks, k, sc_now)
                /\ sc_room' = [sc_room EXCEPT ![n] = dest]
                /\ sc_ran' = [sc_ran EXCEPT ![k] =
                                 IF dest = sc_room[n] THEN "stayed" ELSE "moved"]
    /\ UNCHANGED <<sc_npcs, sc_sched, sc_now, sc_period, sc_running, sc_pc,
                   sc_wake>>
    /\ UNCHANGED nonSchedVars

\* ScheduledTask.run of perform_ambient_action for NPC n.  Without the NPC,
\* or with an NPC that has no room, the task unregisters itself; otherwise
\* an action is broadcast to the room when players are there (speaks)
sched_perform_ambient_action(n, speaks) ==
    LET k == <<"npc_ambient", n>>
    IN  /\ sc_pc = "gather"
        /\ k \in sc_coros
        /\ sc_coros' = sc_coros \ {k}
        /\ IF n \notin sc_npcs \/ sc_room[n] = None
           THEN /\ sc_tasks' = [task_ran(sc_tasks, k, sc_now) EXCEPT
                                    ![k] = NoTask]
                /\ sc_ran' = [sc_ran EXCEPT ![k] = "gone"]
           ELSE /\ sc_tasks' = task_ran(sc_tasks, k, sc_now)
                /\ sc_ran' = [sc_ran EXCEPT ![k] =
                                 IF speaks THEN "spoke" ELSE "silent"]
    /\ UNCHANGED <<sc_npcs, sc_room, sc_sched, sc_now, sc_period, sc_running,
                   sc_pc, sc_wake>>
    /\ UNCHANGED nonSchedVars

\* the gather of the tick loop returns, the loop goes to sleep
sched_gather_returns ==
    /\ sc_pc = "gather"
    /\ sc_coros = {}
    /\ sc_pc' = "sleep"
    /\ sc_wake' = sc_now + base_tick_interval
    /\ UNCHANGED <<sc_npcs, sc_room, sc_sched, sc_tasks, sc_now, sc_period,
                   sc_running, sc_coros, sc_ran>>
    /\ UNCHANGED nonSchedVars

SchedElapse ==
    /\ sc_now < SchedStart + SchedHorizon
    /\ sc_now' = sc_now + SchedTimeStep
    /\ UNCHANGED <<sc_npcs, sc_room, sc_sched, sc_tasks, sc_period, sc_running,
                   sc_pc, sc_wake, sc_coros, sc_ran>>
    /\ UNCHANGED nonSchedVars

NextSched ==
    \/ \E n \in SchedNpcs, r \in SchedRooms \cup {None},
          schedule \in SchedSchedules : sched_register_npc(n, r, schedule)
    \/ \E n \in SchedNpcs : sched_unregister_npc(n)
    \/ \E kind \in TaskKinds, n \in SchedNpcs :
          register_npc_task(kind, n, SchedTimeStep)
    \/ sched_start
    \/ sched_tick_begin
    \/ \E n \in SchedNpcs, dest \in SchedRooms : sched_check_npc_movement(n, dest)
    \/ \E n \in SchedNpcs, speaks \in BOOLEAN :
          sched_perform_ambient_action(n, speaks)
    \/ sched_gather_returns
    \/ SchedElapse

(***************************************************************************)
(* server.py: MudServer.shutdown with the two background tasks of the      *)
(* server, the tick loop (tick_scheduler.py) and idle_check_task.  The     *)
(* server is up: start_server has started the scheduler and created the    *)
(* idle check.                                                             *)
(***************************************************************************)
NumShutTasks == 2       \* scheduled tasks
MaxShutCalls == 2       \* callbacks started during one run
MaxShutPasses == 2      \* passes of the idle check during one run

ShutTasks == 1..NumShutTasks

InitShut ==
    /\ sd_running = TRUE
    /\ sd_pc = "none"
    /\ sd_tick_running = TRUE
    /\ sd_tick = "sleep"
    /\ sd_coros = {}
    /\ sd_idle = "sleep"
    /\ sd_calls = 0
    /\ sd_passes = 0

\* one pass of _tick_loop after its sleep: the due tasks go into the gather
shut_tick_begin(due) ==
    /\ sd_tick = "sleep"
    /\ sd_tick_running
    /\ sd_calls + Cardinality(due) <= MaxShutCalls
    /\ sd_coros' = due
    /\ sd_tick' = IF due = {} THEN "sleep" ELSE "gather"
    /\ UNCHANGED <<sd_running, sd_pc, sd_tick_running, sd_idle, sd_calls,
                   sd_passes>>
    /\ UNCHANGED nonShutVars

\* ScheduledTask.run: the callback of a task of the gather is started
shut_task_run(t) ==
    /\ sd_tick = "gather"
    /\ t \in sd_coros
    /\ sd_coros' = sd_coros \ {t}
    /\ sd_calls' = sd_calls + 1
    /\ UNCHANGED <<sd_running, sd_pc, sd_tick_running, sd_tick, sd_idle,
                   sd_passes>>
    /\ UNCHANGED nonShutVars

\* the gather returns, the loop sleeps
shut_gather_returns ==
    /\ sd_tick = "gather"
    /\ sd_coros = {}
    /\ sd_tick' = "sleep"
    /\ UNCHANGED <<sd_running, sd_pc, sd_tick_running, sd_coros, sd_idle,
                   sd_calls, sd_passes>>
    /\ UNCHANGED nonShutVars

\* MudServer.shutdown up to the await in TickScheduler.stop: running is
\* cleared, the tick task is cancelled, and with it the coroutines of its
\* gather that have not started.  The task of idle_check_task is not kept
\* anywhere and is not cancelled
shutdown_begin ==
    /\ sd_pc = "none"
    /\ sd_running' = FALSE
    /\ sd_tick_running' = FALSE
    /\ sd_coros' = {}
    /\ sd_tick' = "cancelled"
    /\ sd_pc' = "stopping"
    /\ UNCHANGED <<sd_idle, sd_calls, sd_passes>>
    /\ UNCHANGED nonShutVars

\* _tick_loop takes the CancelledError and breaks
shut_tick_cancelled ==
    /\ sd_tick = "cancelled"
    /\ sd_tick' = "done"
    /\ UNCHANGED <<sd_running, sd_pc, sd_tick_running, sd_coros, sd_idle,
                   sd_calls, sd_passes>>
    /\ UNCHANGED nonShutVars

\* the rest of MudServer.shutdown, await by await: stop returns and the NPC
\* states are saved, the clients are notified, sys.exit ends the process
shutdown_step ==
    /\ \/ sd_pc = "stopping" /\ sd_tick = "done" /\ sd_pc' = "saving"
       \/ sd_pc = "saving" /\ sd_pc' = "notifying"
       \/ sd_pc = "notifying" /\ sd_pc' = "exited"
    /\ UNCHANGED <<sd_running, sd_tick_running, sd_tick, sd_coros, sd_idle,
                   sd_calls, sd_passes>>
    /\ UNCHANGED nonShutVars

\* idle_check_task: the sleep ends and a pass over the sessions begins
idle_check_wakes ==
    /\ sd_idle = "sleep"
    /\ sd_pc # "exited"
    /\ sd_passes < MaxShutPasses
    /\ sd_idle' = "pass"
    /\ sd_passes' = sd_passes + 1
    /\ UNCHANGED <<sd_running, sd_pc, sd_tick_running, sd_tick, sd_coros,
                   sd_calls>>
    /\ UNCHANGED nonShutVars

\* idle_check_task: the pass is over, the loop tests self.running
idle_check_pass_ends ==
    /\ sd_idle = "pass"
    /\ sd_pc # "exited"
    /\ sd_idle' = IF sd_running THEN "sleep" ELSE "done"
    /\ UNCHANGED <<sd_running, sd_pc, sd_tick_running, sd_tick, sd_coros,
                   sd_calls, sd_passes>>
    /\ UNCHANGED nonShutVars

NextShut ==
    \/ \E due \in SUBSET ShutTasks : shut_tick_begin(due)
    \/ \E t \in ShutTasks : shut_task_run(t)
    \/ shut_gather_returns
    \/ shutdown_begin
    \/ shut_tick_cancelled
    \/ shutdown_step
    \/ idle_check_wakes
    \/ idle_check_pass_ends

\* C37: once shutdown has begun, the tick loop starts no callback of a
\* scheduled task and the idle check begins no pass over the sessions
C37_ShutdownStopsBackgroundTasks ==
    [][sd_pc # "none" =>
          /\ sd_calls' = sd_calls
          /\ sd_passes' = sd_passes]_vars

(***************************************************************************)
(* server.py: the connection limit of handle_client_shell.  A connection   *)
(* is put into MudServer.clients before the first drain of its writer, and *)
(* the limit is tested after that drain; the entry is deleted in the       *)
(* finally clause.  A drain is an await: other tasks may run before it     *)
(* returns, and it raises when the connection was lost.                    *)
(***************************************************************************)
NumConns == 3           \* connections (handler tasks) of the limit model
MAX_CONNECTIONS == 2    \* config.MAX_CONNECTIONS, scaled to the model

Conns == 1..NumConns
PastCheck == {"welcome", "auth", "game"}

InitConn ==
    /\ cn_clients = {}
    /\ cn_pc = [c \in Conns |-> "free"]
    /\ cn_late = [c \in Conns |-> FALSE]
    /\ cn_closing = [c \in Conns |-> FALSE]
    /\ cn_wire = [c \in Conns |-> "none"]

\* handle_client_shell up to its first await: the client is put into the
\* session table, the telnet option is written, the writer is drained
conn_accept(c) ==
    /\ cn_pc[c] \in {"free", "ended"}
    /\ cn_clients' = cn_clients \cup {c}
    /\ cn_pc' = [cn_pc EXCEPT ![c] = "drain"]
    /\ cn_late' = [cn_late EXCEPT
                       ![c] = Cardinality(cn_clients) >= MAX_CONNECTIONS]
    /\ cn_closing' = [cn_closing EXCEPT ![c] = FALSE]
    /\ cn_wire' = [cn_wire EXCEPT ![c] = "none"]
    /\ UNCHANGED nonConnVars

\* the peer of a connection that waits in its first drain goes away
conn_peer_closes(c) ==
    /\ cn_pc[c] = "drain"
    /\ ~cn_closing[c]
    /\ cn_closing' = [cn_closing EXCEPT ![c] = TRUE]
    /\ UNCHANGED <<cn_clients, cn_pc, cn_late, cn_wire>>
    /\ UNCHANGED nonConnVars

\* the finally clause of handle_client_shell for a client without a
\* player: Client.disconnect closes the writer, the entry is deleted
conn_finally(c) ==
    /\ cn_clients' = cn_clients \ {c}
    /\ cn_pc' = [cn_pc EXCEPT ![c] = "ended"]

\* the first drain raises for a lost connection: except, then finally
conn_drain_raises(c) ==
    /\ cn_pc[c] = "drain"
    /\ cn_closing[c]
    /\ conn_finally(c)
    /\ UNCHANGED <<cn_late, cn_closing, cn_wire>>
    /\ UNCHANGED nonConnVars

\* a limit that lets one more connection in
over_limit_by_two(n) == n > MAX_CONNECTIONS + 1

\* if len(self.clients) > MAX_CONNECTIONS
over_limit(n) == n > MAX_CONNECTIONS

\* the first drain returns and the limit is tested: Client.send of the
\* server-full message or send_welcome, each up to the drain of the send;
\* Client.send returns at once, without a write, when the transport is
\* closing, and the handler goes on to its next await
conn_limit_check(c) ==
    /\ cn_pc[c] = "drain"
    /\ IF over_limit(Cardinality(cn_clients))
       THEN IF cn_closing[c]
            THEN /\ conn_finally(c)
                 /\ UNCHANGED cn_wire
            ELSE /\ cn_pc' = [cn_pc EXCEPT ![c] = "full"]
                 /\ cn_wire' = [cn_wire EXCEPT ![c] = "full"]
                 /\ UNCHANGED cn_clients
       ELSE /\ cn_pc' = [cn_pc EXCEPT
                             ![c] = IF cn_closing[c] THEN "auth" ELSE "welcome"]
            /\ cn_wire' = [cn_wire EXCEPT
                               ![c] = IF cn_closing[c] THEN @ ELSE "welcome"]
            /\ UNCHANGED cn_clients
    /\ UNCHANGED <<cn_late, cn_closing>>
    /\ UNCHANGED nonConnVars

\* the send of the server-full message is over: return, then finally
conn_full_returns(c) ==
    /\ cn_pc[c] = "full"
    /\ conn_finally(c)
    /\ UNCHANGED <<cn_late, cn_closing, cn_wire>>
    /\ UNCHANGED nonConnVars

\* send_welcome is over: the authentication loop
conn_welcome_returns(c) ==
    /\ cn_pc[c] = "welcome"
    /\ cn_pc' = [cn_pc EXCEPT ![c] = "auth"]
    /\ UNCHANGED <<cn_clients, cn_late, cn_closing, cn_wire>>
    /\ UNCHANGED nonConnVars

\* handle_welcome_choice returns success: the main game loop
conn_authenticates(c) ==
    /\ cn_pc[c] = "auth"
    /\ cn_pc' = [cn_pc EXCEPT ![c] = "game"]
    /\ UNCHANGED <<cn_clients, cn_late, cn_closing, cn_wire>>
    /\ UNCHANGED nonConnVars

\* a session leaves its loop (quit, end of input, an error): the finally
\* clause; with a player it awaits remove_player and db.end_session
\* before the entry is deleted
conn_leaves(c) ==
    /\ cn_pc[c] \in PastCheck
    /\ IF cn_pc[c] = "game"
       THEN /\ cn_pc' = [cn_pc EXCEPT ![c] = "cleanup"]
            /\ UNCHANGED cn_clients
       ELSE conn_finally(c)
    /\ UNCHANGED <<cn_late, cn_closing, cn_wire>>
    /\ UNCHANGED nonConnVars

\* the awaits of the finally clause are over: disconnect, delete
conn_cleanup_ends(c) ==
    /\ cn_pc[c] = "cleanup"
    /\ conn_finally(c)
    /\ UNCHANGED <<cn_late, cn_closing, cn_wire>>
    /\ UNCHANGED nonConnVars

NextConn ==
    \/ \E c \in Conns : conn_accept(c)
    \/ \E c \in Conns : conn_peer_closes(c)
    \/ \E c \in Conns : conn_drain_raises(c)
    \/ \E c \in Conns : conn_limit_check(c)
    \/ \E c \in Conns : conn_full_returns(c)
    \/ \E c \in Conns : conn_welcome_returns(c)
    \/ \E c \in Conns : conn_authenticates(c)
    \/ \E c \in Conns : conn_leaves(c)
    \/ \E c \in Conns : conn_cleanup_ends(c)

(***************************************************************************)
(* commands.py: the suggestions for an unknown verb.  A verb is a sequence *)
(* of characters; the registered commands are kept in the order of their   *)
(* registration, the order in which a dict is iterated.                    *)
(***************************************************************************)
MaxTyped == 4           \* characters of a typed verb

TypedLetters == {"n", "o", "r", "t", "s", "u", "h"}
TypedTexts == UNION {[1..k -> TypedLetters] : k \in 1..MaxTyped}

\* the keys of CommandProcessor.commands, as _register_commands adds them
registered_commands ==
    << <<"l", "o", "o", "k">>, <<"m", "o", "v", "e">>, <<"n">>,
       <<"n", "o", "r", "t", "h">>, <<"s">>, <<"s", "o", "u", "t", "h">>,
       <<"e">>, <<"e", "a", "s", "t">>, <<"w">>, <<"w", "e", "s", "t">>,
       <<"w", "h", "e", "r", "e">>, <<"s", "a", "y">>,
       <<"s", "h", "o", "u", "t">>, <<"w", "h", "o">>,
       <<"h", "e", "l", "p">>, <<"q", "u", "i", "t">>,
       <<"e", "x", "i", "t">> >>

is_registered(text) ==
    \E i \in DOMAIN registered_commands : registered_commands[i] = text

\* cmd.startswith(command_name)
startswith(cmd, command_name) ==
    /\ Len(command_name) <= Len(cmd)
    /\ SubSeq(cmd, 1, Len(command_name)) = command_name

\* sum(1 for a, b in zip(cmd, command_name) if a == b)
positional_matches(cmd, command_name) ==
    Cardinality({i \in 1..(IF Len(cmd) < Len(command_name)
                           THEN Len(cmd) ELSE Len(command_name)) :
                     cmd[i] = command_name[i]})

\* the elif branch of _find_similar_commands
overlaps(cmd, command_name) ==
    /\ Len(cmd) > 3
    /\ Len(command_name) > 3
    /\ Len(cmd) - Len(command_name) \in -2..2
    /\ positional_matches(cmd, command_name) >= Len(command_name) - 2

\* CommandProcessor._find_similar_commands: one pass over the commands in
\* their order, then the first three
find_similar_commands(command_name) ==
    LET similar ==
            SelectSeq(registered_commands,
                      LAMBDA cmd : \/ startswith(cmd, command_name)
                                   \/ overlaps(cmd, command_name))
    IN  SubSeq(similar, 1, IF Len(similar) < 3 THEN Len(similar) ELSE 3)

InitSuggest ==
    /\ sg_text \in TypedTexts
    /\ sg_similar = <<>>
    /\ sg_pc = "typed"

\* process_command up to the reply to an unknown verb, or to the dispatch
\* of a registered one
suggest_or_dispatch ==
    /\ sg_pc = "typed"
    /\ IF is_registered(sg_text)
       THEN /\ sg_pc' = "dispatched"
            /\ UNCHANGED sg_similar
       ELSE /\ sg_pc' = "unknown"
            /\ sg_similar' = find_similar_commands(sg_text)
    /\ UNCHANGED sg_text
    /\ UNCHANGED nonSuggestVars

NextSuggest == suggest_or_dispatch

(***************************************************************************)
(* The specifications: each runs one part of the server, the rest idle.    *)
(***************************************************************************)
\* the idle check, the broadcast and the NPC engine at rest
InitIdleQuiet ==
    /\ clock = 0 /\ last_activity = 0 /\ last_byte = 0
    /\ idle_pc = "reading" /\ idle_active = TRUE /\ idle_warnings = 0
    /\ next_check = 0 /\ late_check = FALSE

InitBcQuiet ==
    /\ b_registry = <<>> /\ b_players = <<>> /\ b_active = <<>>
    /\ b_link = <<>> /\ b_pc = "idle" /\ b_scope = {} /\ b_exclude = NoId
    /\ b_pending = {} /\ b_result = <<>> /\ b_raised = FALSE

InitNpcQuiet ==
    /\ npcs = {} /\ current_room = <<>> /\ room_npcs = <<>>
    /\ room_obj_npcs = <<>> /\ npc_state = <<>> /\ last_moved = <<>>
    /\ npc_now = 0 /\ movement = <<>> /\ move_pc = <<>> /\ move_dest = <<>>
    /\ move_old = <<>> /\ move_tasks = {} /\ last_tick = <<>>
    /\ next_room = <<>>
    /\ n_registry = <<>> /\ n_players = <<>>

\* Client.__init__: active, nothing sent, nothing read
InitSendQuiet ==
    /\ s_active = TRUE /\ s_link = "ok" /\ s_wire = <<>>
    /\ s_ret = "none" /\ s_n = 0

InitLineQuiet ==
    /\ rx = <<>> /\ rx_sent = 0 /\ rx_eof = FALSE /\ rl_pc = "idle"
    /\ rl_echo = TRUE /\ line_buffer = <<>> /\ rl_taken = <<>>
    /\ rl_next = <<>> /\ rl_out = <<>> /\ rl_status = "none"
    /\ rl_line = <<>> /\ rl_wait = 0

InitChatQuiet ==
    /\ c_pc = <<>> /\ c_id = <<>> /\ c_active = <<>> /\ c_srv = <<>>
    /\ c_registry = <<>> /\ c_room = <<>> /\ c_players = <<>>
    /\ c_db = <<>> /\ c_data = <<>> /\ c_dest = <<>> /\ c_heard = <<>>
    /\ c_nmoves = 0 /\ c_nsay = 0

InitFifoQuiet ==
    /\ f_pc = <<>> /\ f_emitted = <<>> /\ f_tasks = {} /\ f_wire = <<>>
    /\ f_active = <<>> /\ f_closing = <<>>

InitTickQuiet ==
    /\ tk_tasks = <<>> /\ tk_now = 0 /\ tk_running = FALSE /\ tk_pc = "none"
    /\ tk_wake = 0 /\ tk_coros = {} /\ tk_raised = {}
    /\ tk_last = <<>> /\ tk_loops = 0

InitLoaderQuiet ==
    /\ ld_decl = <<>> /\ ld_validate = FALSE /\ ld_pending = {}
    /\ ld_exits = <<>> /\ ld_created = {} /\ ld_warnings = {}
    /\ ld_pc = "none"

InitSchedQuiet ==
    /\ sc_npcs = {} /\ sc_room = <<>> /\ sc_sched = <<>> /\ sc_tasks = <<>>
    /\ sc_now = 0 /\ sc_period = "none" /\ sc_running = FALSE
    /\ sc_pc = "none" /\ sc_wake = 0 /\ sc_coros = {} /\ sc_ran = <<>>

InitShutQuiet ==
    /\ sd_running = FALSE /\ sd_pc = "none" /\ sd_tick_running = FALSE
    /\ sd_tick = "none" /\ sd_coros = {} /\ sd_idle = "none" /\ sd_calls = 0
    /\ sd_passes = 0

InitConnQuiet ==
    /\ cn_clients = {} /\ cn_pc = <<>> /\ cn_late = <<>> /\ cn_closing = <<>>
    /\ cn_wire = <<>>

InitSuggestQuiet ==
    /\ sg_text = <<>> /\ sg_similar = <<>> /\ sg_pc = "none"

\* the part a specification is about starts as its section says, every
\* other part of the input and output layer is at rest
InitParts(part) ==
    /\ IF part = "chat" THEN InitChat ELSE InitChatQuiet
    /\ IF part = "fifo" THEN InitFifo ELSE InitFifoQuiet
    /\ IF part = "tick" THEN InitTick ELSE InitTickQuiet
    /\ IF part = "loader" THEN InitLoader ELSE InitLoaderQuiet
    /\ IF part = "sched" THEN InitSched ELSE InitSchedQuiet
    /\ IF part = "shut" THEN InitShut ELSE InitShutQuiet
    /\ IF part = "conn" THEN InitConn ELSE InitConnQuiet
    /\ IF part = "suggest" THEN InitSuggest ELSE InitSuggestQuiet

InitIoQuiet == InitSendQuiet /\ InitLineQuiet /\ InitParts("none")

Init ==
    /\ InitSess /\ InitRate /\ InitIdleQuiet /\ InitBcQuiet /\ InitNpcQuiet
    /\ InitIoQuiet

Next == NextSess

Spec == Init /\ [][Next]_vars

InitRateSpec ==
    /\ InitSess /\ db_accounts = {1}
    /\ InitRate /\ InitIdleQuiet /\ InitBcQuiet /\ InitNpcQuiet
    /\ InitIoQuiet

SpecRate == InitRateSpec /\ [][NextRate]_vars

InitIdleSpec ==
    /\ InitSess /\ db_accounts = {1}
    /\ InitRate /\ InitIdle /\ InitBcQuiet /\ InitNpcQuiet
    /\ InitIoQuiet

SpecIdle == InitIdleSpec /\ [][NextIdle]_vars

InitBroadcastSpec ==
    /\ InitSess /\ db_accounts = {1}
    /\ InitRate /\ InitIdleQuiet /\ InitBroadcast /\ InitNpcQuiet
    /\ InitIoQuiet

SpecBroadcast == InitBroadcastSpec /\ [][NextBroadcast]_vars

InitNpcSpec ==
    /\ InitSess /\ db_accounts = {1}
    /\ InitRate /\ InitIdleQuiet /\ InitBcQuiet /\ InitNpc
    /\ InitIoQuiet

SpecNPC == InitNpcSpec /\ [][NextNpc]_vars

InitNpcDaySpec ==
    /\ InitSess /\ db_accounts = {1}
    /\ InitRate /\ InitIdleQuiet /\ InitBcQuiet /\ InitNpcDay
    /\ InitIoQuiet

SpecNPCDay == InitNpcDaySpec /\ [][NextNpcDay]_vars

\* the clock goes on, a move that has started goes on after each of its
\* broadcasts, and of the runs of the movement task in which a move can
\* start infinitely many start it (the tick loop keeps running the task and
\* the probability roll keeps succeeding)
SpecNPCDayFair ==
    /\ SpecNPCDay
    /\ WF_vars(NpcDayElapse)
    /\ \A n \in NpcIds :
          /\ WF_vars(move_npc_departed(n))
          /\ WF_vars(move_npc_arrived(n))
          /\ SF_vars(MoveStarts(n))

\* a fresh Client on an open connection, everything else at rest
SpecSend == InitRateSpec /\ [][NextSend]_vars

\* a fresh Client whose peer has sent nothing yet, everything else at rest
SpecLine == InitRateSpec /\ [][NextLine]_vars

InitChatSpec ==
    /\ InitSess /\ db_accounts = {1}
    /\ InitRate /\ InitIdleQuiet /\ InitBcQuiet /\ InitNpcQuiet
    /\ InitSendQuiet /\ InitLineQuiet /\ InitParts("chat")

SpecChat == InitChatSpec /\ [][NextChat]_vars

\* the steps the event loop takes by itself: a task whose await is over
\* goes on (after the row read, after the row write, into the finally
\* block); what the peers type and when they close is up to them
ChatProgress ==
    \E s \in ChatSessions :
        \/ chat_add_player(s)
        \/ chat_move_saved(s)
        \/ c_pc[s] = "finally" /\ chat_finally(s)

SpecChatFair == SpecChat /\ WF_vars(ChatProgress)

\* senders and recipients with nothing emitted yet, everything else at rest
InitFifoSpec ==
    /\ InitSess /\ db_accounts = {1}
    /\ InitRate /\ InitIdleQuiet /\ InitBcQuiet /\ InitNpcQuiet
    /\ InitSendQuiet /\ InitLineQuiet /\ InitParts("fifo")

SpecFifo == InitFifoSpec /\ [][NextFifo]_vars

InitTickSpec ==
    /\ InitSess /\ db_accounts = {1}
    /\ InitRate /\ InitIdleQuiet /\ InitBcQuiet /\ InitNpcQuiet
    /\ InitSendQuiet /\ InitLineQuiet /\ InitParts("tick")

SpecTick == InitTickSpec /\ [][NextTick]_vars

InitLoaderSpec ==
    /\ InitSess /\ db_accounts = {1}
    /\ InitRate /\ InitIdleQuiet /\ InitBcQuiet /\ InitNpcQuiet
    /\ InitSendQuiet /\ InitLineQuiet /\ InitParts("loader")

SpecLoader == InitLoaderSpec /\ [][NextLoader]_vars

InitSchedSpec ==
    /\ InitSess /\ db_accounts = {1}
    /\ InitRate /\ InitIdleQuiet /\ InitBcQuiet /\ InitNpcQuiet
    /\ InitSendQuiet /\ InitLineQuiet /\ InitParts("sched")

SpecSched == InitSchedSpec /\ [][NextSched]_vars

InitShutSpec ==
    /\ InitSess /\ db_accounts = {1}
    /\ InitRate /\ InitIdleQuiet /\ InitBcQuiet /\ InitNpcQuiet
    /\ InitSendQuiet /\ InitLineQuiet /\ InitParts("shut")

SpecShut == InitShutSpec /\ [][NextShut]_vars

InitConnSpec ==
    /\ InitSess /\ db_accounts = {1}
    /\ InitRate /\ InitIdleQuiet /\ InitBcQuiet /\ InitNpcQuiet
    /\ InitSendQuiet /\ InitLineQuiet /\ InitParts("conn")

SpecConn == InitConnSpec /\ [][NextConn]_vars

InitSuggestSpec ==
    /\ InitSess /\ db_accounts = {1}
    /\ InitRate /\ InitIdleQuiet /\ InitBcQuiet /\ InitNpcQuiet
    /\ InitSendQuiet /\ InitLineQuiet /\ InitParts("suggest")

SpecSuggest == InitSuggestSpec /\ [][NextSuggest]_vars

(***************************************************************************)
(* Properties of the session layer.                                        *)
(***************************************************************************)
\* the login of session x has completed (_complete_login has returned)
LoginDone(x) == authenticated[x] /\ pc[x] \notin {"cl_db", "ap_db", "cl_send"}

\* session x is authenticated, active and bound to player id p
Live(x, p) == authenticated[x] /\ is_active[x] /\ player_id[x] = p

\* C1: when the later of two logins to the same account completes, exactly
\* one session is authenticated, active and bound to that player id, and the
\* connection whose login completed earlier has been marked inactive
C1_OneLiveSession ==
    [][\A c \in Clients, x \in Clients :
          (/\ c # x
           /\ pc[c] = "cl_send" /\ pc'[c] # "cl_send"
           /\ LoginDone(x) /\ player_id[x] = player_id[c])
          => (/\ Cardinality({y \in Clients : Live(y, player_id[c])'}) = 1
              /\ ~is_active'[x])]_vars

\* C2: when a move from room A along an exit to an existing room B completes,
\* the player id is not in A.players, is in B.players, the live Player's
\* current room is B and the persisted room is B
C2_MovePostcondition ==
    [][\A c \in Clients :
          (pc[c] = "mv_notify" /\ pc'[c] # "mv_notify")
          => LET A == locals[c].old_room_id
                 B == locals[c].room_id
                 p == player_id[c]
             IN  /\ p \notin room_players'[A]
                 /\ p \in room_players'[B]
                 /\ pm_players'[p] # NoId
                 /\ obj_room'[pm_players'[p]] = B
                 /\ db_room'[p] = B]_vars

\* the inputs AuthManager.handle_welcome_choice acts on
AcceptedPreAuth == {"login", "signup", "help", "quit", "exit"}

\* what rejecting an input of session c means: the prompt to log in or sign
\* up, the session still waiting in the authentication loop, no handler run,
\* no occupancy, registry or binding change, nothing sent to anyone else
Rejected(c) ==
    /\ last_out'[c] = "please_login"
    /\ pc'[c] = "auth_read"
    /\ UNCHANGED <<handled, room_players, pm_players, srv_active,
                   authenticated, player_id, is_active>>
    /\ \A x \in Clients \ {c} : last_out'[x] = last_out[x]

\* a session that is not authenticated has run no game command handler and
\* owns no registry entry and no binding
NoGameEffect ==
    \A c \in Clients :
        ~authenticated[c] =>
            /\ c \notin handled
            /\ player_id[c] = NoId
            /\ \A p \in Pids : pm_players[p] # c /\ srv_active[p] # c

HandlerRaised(c) ==
    \/ pc[c] = "mv_db" /\ pc'[c] \notin {"mv_db", "mv_notify"}
    \/ /\ pc[c] = "q_rm_bcast"
       /\ pm_players[player_id[c]] = NoId
       /\ pc'[c] # "q_rm_bcast"

\* C11: when a dispatched handler raises, the dispatcher catches the error:
\* the session stays in the session table and authenticated, its is_active
\* is not touched, and a session that is still active is sent the generic
\* error text and is back at the read of the main loop
C11_HandlerErrorContained ==
    [][\A c \in Clients :
          HandlerRaised(c) =>
             /\ c \in clients'
             /\ authenticated'[c] = authenticated[c]
             /\ is_active'[c] = is_active[c]
             /\ player_id'[c] = player_id[c]
             /\ (is_active[c] /\ authenticated[c]) =>
                    /\ last_out'[c] = "error_occurred"
                    /\ pc'[c] = "cmd_read"]_vars

\* a session whose handler raised is active, authenticated and reading
C11_Witness ==
    \E c \in Clients :
        /\ pc[c] = "cmd_read"
        /\ last_out[c] = "error_occurred"
        /\ is_active[c]
        /\ authenticated[c]
        /\ c \in clients
        /\ ncmds[c] > 0

\* C12: once is_active of a session is false, its loop dispatches no further
\* command: no line read after the flag was cleared reaches process_command
C12_InactiveDispatchesNothing ==
    [][\A c \in Clients :
          (~is_active[c] /\ pc[c] \in {"auth_read", "cmd_read"}) =>
              /\ ncmds'[c] = ncmds[c]
              /\ pc'[c] \in {pc[c], "finally"}]_vars

\* C13: when the connection task of a session has ended, Client.disconnect
\* has run for it (is_active is false, the transport is closed), the session
\* is out of the session table, the registry holds no Player of that
\* session, and when the registry holds no Player for its player id no room
\* set holds that id either
C13_ExitCleansUp ==
    \A c \in Clients :
       pc[c] \in {"closed", "crashed"} =>
          /\ ~is_active[c]
          /\ c \notin clients
          /\ player_id[c] # NoId =>
                /\ pm_players[player_id[c]] # c
                /\ pm_players[player_id[c]] = NoId =>
                      \A r \in Rooms : player_id[c] \notin room_players[r]

\* session c enters remove_player with an id that has no registry entry:
\* from the finally block, or from cmd_quit after its save
RemovesAbsent(c) ==
    /\ pc[c] \in {"finally", "q_db"}
    /\ player_id[c] # NoId
    /\ pm_players[player_id[c]] = NoId
    /\ pc'[c] # pc[c]

\* C22: removing an id that is not in the registry changes no registry
\* entry and no room's occupancy, sends nothing to any other session and
\* raises no error; from the finally block (the second removal after a quit)
\* the persisted room is untouched as well.
C22_RemoveAbsentIsNoOp ==
    [][\A c \in Clients :
        RemovesAbsent(c) =>
            /\ UNCHANGED <<pm_players, room_players, obj_room>>
            /\ \A o \in Clients \ {c} : last_out'[o] = last_out[o]
            /\ pc[c] = "finally" =>
                    (pc'[c] = "td_disc" /\ UNCHANGED <<db_room, last_out>>)
            /\ pc[c] = "q_db" =>
                    (pc'[c] = "finally" /\ last_out'[c] # "error_occurred")]_vars

\* a session that quit, so that its own cmd_quit removed its player, has run
\* the removal of its finally block as well
C22_Witness ==
    \E c \in Clients :
        /\ pc[c] = "td_disc"
        /\ c \in handled
        /\ player_id[c] # NoId
        /\ pm_players[player_id[c]] = NoId
        /\ last_out[c] = "goodbye"

\* the line makes session c try a move from a room it is in, in a direction
\* that is no exit of that room or whose exit names no room
NotAnExit(c, command_name, args) ==
    LET player == pm_players[player_id[c]]
        direction == MOVEMENT_SHORTCUTS(move_direction(command_name, args))
    IN  /\ player # NoId
        /\ get_room(obj_room[player]) # None
        /\ \/ direction \notin Directions
           \/ WorldExits[obj_room[player]][direction] = None
           \/ get_room(WorldExits[obj_room[player]][direction]) = None

\* C24: a move in a direction that is not an exit, or whose exit names no
\* room, tells the session that it cannot go there and changes no Player's
\* room, no room's occupancy and no persisted room; no move begins, so no
\* other session is told of a departure or an arrival.
C24_FailedMoveChangesNothing ==
    [][\A c \in Clients : \A line \in InputLines :
        (_move_player(c, line[1], line[2]) /\ NotAnExit(c, line[1], line[2]))
            => /\ UNCHANGED <<obj_room, room_players, db_room, pm_players>>
               /\ pc'[c] # "mv_db"
               /\ is_active[c] => last_out'[c] = "cant_go"
               /\ \A o \in Clients \ {c} : last_out'[o] = last_out[o]]_vars

\* a logged-in session was told that it cannot go that way and is still in
\* the room it started in
C24_Witness ==
    \E c \in Clients :
        /\ last_out[c] = "cant_go"
        /\ c \in handled
        /\ pm_players[player_id[c]] # NoId
        /\ obj_room[pm_players[player_id[c]]] = starting_room
        /\ player_id[c] \in room_players[starting_room]

\* session c, whose last message was the confirmation of its new account,
\* ends _complete_login in this step: its signup returns True
SignupCompletes(c) ==
    /\ pc[c] = "cl_send"
    /\ last_out[c] = "account_created"
    /\ pc'[c] # "cl_send"

\* C26: when a signup has succeeded, the account exists, the session is
\* authenticated, and its player is in the registry and in the occupancy set
\* of the starting room.
C26_SignupPlacesPlayer ==
    [][\A c \in Clients :
        SignupCompletes(c) =>
            /\ player_id[c] \in db_accounts'
            /\ authenticated'[c]
            /\ pm_players'[player_id[c]] # NoId
            /\ player_id[c] \in room_players'[starting_room]]_vars

\* C27: whenever the operations are suspended, the id of every registered
\* player is in the occupancy set of the room its Player names and in no
\* other, and every id in an occupancy set has a Player in the registry.
C27_OccupancyMatchesRegistry ==
    /\ \A p \in Pids :
          pm_players[p] # NoId =>
              \A r \in Rooms :
                  p \in room_players[r] <=> r = obj_room[pm_players[p]]
    /\ \A r \in Rooms : \A p \in room_players[r] : pm_players[p] # NoId

\* session c, logged in, was displaced by the login of session n to the same
\* account: c was told so and marked inactive, n has completed its login and
\* waits for a command with its Player registered and present in its room
Displaced(c, n) ==
    /\ c # n
    /\ LoginDone(c)
    /\ player_id[c] # NoId
    /\ player_id[c] = player_id[n]
    /\ last_out[c] = "kicked"
    /\ ~is_active[c]
    /\ is_active[n]
    /\ pc[n] = "cmd_read"
    /\ pm_players[player_id[n]] = n
    /\ srv_active[player_id[n]] = n
    /\ player_id[n] \in room_players[obj_room[n]]

\* C28: no step of a displaced session, be it a command it still processes
\* or its teardown, takes the newer session's player out of the registry,
\* out of its room or out of server.active_players, or moves it.
C28_DisplacedLeavesNewerAlone ==
    [][\A c, n \in Clients :
        (Displaced(c, n) /\ pc'[c] # pc[c]) =>
            /\ pm_players'[player_id[n]] = n
            /\ srv_active'[player_id[n]] = n
            /\ obj_room'[n] = obj_room[n]
            /\ player_id[n] \in room_players'[obj_room[n]]]_vars

\* C29: a removal that was suspended in its departure broadcast goes on to
\* the deletion of the registry entry without raising, also when another
\* removal of the same id has run in between; so no finally block is left
\* by an error and every session completes its teardown.
C29_OverlappingRemovalsComplete ==
    [][\A c \in Clients :
        (pc[c] = "td_rm_bcast" /\ pc'[c] # pc[c]) => pc'[c] = "td_rm_db"]_vars

\* NPC n is in the manager's set of exactly one room, the one its room
\* pointer names
NpcInOneRoom(cur, idx, n) ==
    \E r \in Rooms :
        /\ cur[n] = r
        /\ n \in idx[r]
        /\ \A q \in Rooms \ {r} : n \notin idx[q]

\* C30: a move of an NPC goes through its steps in order.  While the
\* departure is broadcast nothing has changed; the occupancy update takes
\* the NPC out of the old room's set, puts it into the destination's set and
\* sets its room pointer, and the row is not written yet; the row is written
\* after the arrival broadcast, and only then the move returns success.  At
\* each suspension point in between the NPC is in exactly one room.
C30_MoveInOrder ==
    [][\A n \in NpcIds :
        /\ (move_pc[n] = "idle" /\ move_pc'[n] = "departing") =>
              /\ UNCHANGED <<current_room, room_npcs, npc_state>>
              /\ NpcInOneRoom(current_room', room_npcs', n)
        /\ (move_pc[n] # "arriving" /\ move_pc'[n] = "arriving") =>
              /\ current_room'[n] = move_dest'[n]
              /\ n \in room_npcs'[move_dest'[n]]
              /\ NpcInOneRoom(current_room', room_npcs', n)
              /\ npc_state'[n] = npc_state[n]
              /\ last_tick'[n] # "moved"
        /\ (move_pc[n] = "arriving" /\ move_pc'[n] = "idle") =>
              /\ UNCHANGED <<current_room, room_npcs>>
              /\ npc_state'[n] = SavedRow(move_dest[n], last_moved[n])
              /\ last_tick'[n] = "moved"]_vars

\* a step in which NPCManager.move_npc is called for NPC n with destination d,
\* by the movement task or by another caller
MoveNpcCalled(n, d) ==
    \/ move_npc_call(n, d)
    \/ /\ move_pc[n] = "idle"
       /\ n \in npcs /\ n \in move_tasks
       /\ <<last_tick[n], next_room[n]>> # <<last_tick'[n], next_room'[n]>>
       /\ next_room'[n] = d
       /\ last_tick'[n] \in {"refused", "moving"}

\* C31: a call of move_npc for an NPC that is not registered, or for a
\* destination that is not in the NPC's allowed rooms, returns False, starts
\* no departure and no arrival broadcast, and leaves the NPC's room pointer,
\* the occupancy sets, last_moved and the persisted row as they were
C31_RefusedMoveChangesNothing ==
    [][\A n \in NpcIds, d \in NpcRooms :
          (/\ MoveNpcCalled(n, d)
           /\ (n \notin npcs \/ d \notin movement[n].allowed_rooms))
          => /\ move_npc_checks(npcs, movement[n], n, d) # "proceed"
             /\ move_pc'[n] = "idle"
             /\ last_tick'[n] # "moving"
             /\ UNCHANGED <<current_room, room_npcs, room_obj_npcs,
                            last_moved, npc_state>>]_vars

\* the movement task called move_npc with the room of the schedule, which is
\* not among the allowed rooms, and the call returned False
C31_Witness ==
    \E n \in NpcIds :
        /\ n \in npcs
        /\ last_tick[n] = "refused"
        /\ move_pc[n] = "idle"
        /\ next_room[n] \notin movement[n].allowed_rooms

\* the callback of task t is started in this step
CallbackStarts(t) ==
    /\ tk_pc = "gather"
    /\ t \in tk_coros
    /\ t \notin tk_coros'
    /\ tk_running'

\* the last-run marker of the task was reset by a change of the time period
MarkerReset(task) == task.last_run = datetime_min

\* the tasks a pass of the loop has to run: the enabled ones whose interval
\* has elapsed since their last-run marker
DueTasks(tasks, instant) ==
    {t \in TaskIds :
        /\ tasks[t] # NoTask
        /\ tasks[t].enabled
        /\ instant - tasks[t].last_run >= tasks[t].interval}

\* C33 as stated: a pass of the loop runs exactly the enabled tasks whose
\* interval has elapsed; the first run of a task is at least one interval
\* after its registration; a later run is at least one interval after the
\* run before it, unless the marker was reset by a change of the time period
C33_RunsWhenDue ==
    [][/\ TickCollects => tk_coros' = DueTasks(tk_tasks', tk_now)
       /\ \A t \in TaskIds :
            (CallbackStarts(t) /\ tk_tasks[t] # NoTask) =>
                IF tk_last[t] = "none"
                THEN /\ ~MarkerReset(tk_tasks[t])
                     /\ tk_now - tk_tasks[t].last_run >= tk_tasks[t].interval
                ELSE \/ MarkerReset(tk_tasks[t])
                     \/ tk_now - tk_tasks[t].last_run >= tk_tasks[t].interval]_vars

\* C33, with the reset of the marker taken into account for the first run as
\* well: a pass of the loop runs exactly the enabled tasks whose interval has
\* elapsed since their last-run marker; a run of a task is at least one
\* interval after its registration and after the run before it, unless the
\* marker was reset by a change of the time period
C33_RunsWhenDueOrReset ==
    [][/\ TickCollects => tk_coros' = DueTasks(tk_tasks', tk_now)
       /\ \A t \in TaskIds :
            (CallbackStarts(t) /\ tk_tasks[t] # NoTask) =>
                \/ MarkerReset(tk_tasks[t])
                \/ tk_now - tk_tasks[t].last_run >= tk_tasks[t].interval]_vars

\* a task with the longer interval has run one step after the start of the
\* run, before its interval had elapsed: its marker had been reset
C33_Witness ==
    \E t \in TaskIds :
        /\ tk_tasks[t] # NoTask
        /\ tk_last[t] = "ok"
        /\ tk_tasks[t].interval = 2 * TickTimeStep
        /\ tk_tasks[t].last_run = TickTimeStep

\* a pass of the tick loop over the NPC tasks is taken in this step
SchedPass ==
    /\ sc_running
    /\ sc_pc \in {"start", "sleep"}
    /\ sc_pc' \in {"gather", "sleep"}
    /\ sc_wake' # sc_wake \/ sc_pc' = "gather"

SchedCallback(k) ==
    /\ sc_pc = "gather"
    /\ k \in sc_coros
    /\ k \notin sc_coros'

\* C35: the movement task and the ambient task of an NPC that is no longer
\* registered, when called, remove themselves from the scheduler and touch
\* no room and send nothing; a task that is not in the scheduler is not run
\* by any later pass
C35_OrphanTaskUnregisters ==
    [][/\ \A k \in TaskKeys :
            (SchedCallback(k) /\ k[2] \notin sc_npcs) =>
                /\ sc_tasks'[k] = NoTask
                /\ sc_ran'[k] = "gone"
                /\ UNCHANGED <<sc_npcs, sc_room>>
       /\ SchedPass =>
            \A k \in sc_coros' : sc_tasks[k] # NoTask]_vars

\* both tasks of an unregistered NPC have removed themselves, and the loop
\* has taken a pass since
C35_Witness ==
    \E n \in SchedNpcs :
        /\ n \notin sc_npcs
        /\ sc_ran[<<"npc_move", n>>] = "gone"
        /\ sc_ran[<<"npc_ambient", n>>] = "gone"
        /\ sc_tasks[<<"npc_move", n>>] = NoTask
        /\ sc_tasks[<<"npc_ambient", n>>] = NoTask
        /\ sc_pc = "sleep"
        /\ sc_wake = sc_now + base_tick_interval
        /\ sc_now = SchedStart + SchedHorizon

\* C36: when unregister_npc has removed an NPC from the registry, the NPC is
\* in the set of no room, neither in the room index of the manager nor in a
\* room's own set
C36_UnregisteredIsNowhere ==
    [][\A n \in NpcIds :
          (n \in npcs /\ n \notin npcs')
          => \A r \in Rooms :
                /\ n \notin room_npcs'[r]
                /\ n \notin room_obj_npcs'[r]]_vars

\* C38: whatever calls of start and stop have been made, at most one tick
\* loop exists, and one exists exactly while the scheduler is running; a
\* start while it is running and a stop while it is stopped change nothing;
\* while the scheduler is stopped no coroutine waits to be started and no
\* callback of a task is started
C38_OneTickLoop ==
    /\ [](/\ tk_loops \in {0, 1}
          /\ tk_running <=> tk_loops = 1
          /\ ~tk_running => (tk_coros = {} /\ tk_pc \in {"none", "stopped"}))
    /\ [][/\ (tick_start /\ tk_running) => UNCHANGED tickVars
          /\ (tick_stop /\ ~tk_running) => UNCHANGED tickVars
          /\ ~tk_running => \A t \in TaskIds : ~CallbackStarts(t)]_vars

\* the scheduler ran a task, was stopped and has been started again: its new
\* loop has not made its first pass yet
C38_Witness ==
    /\ tk_running
    /\ tk_loops = 1
    /\ tk_pc = "start"
    /\ \E t \in TaskIds : tk_last[t] = "ok"

\* the sessions that are past the connection-limit check
SessionsPastCheck == {c \in Conns : cn_pc[c] \in PastCheck}

\* the step takes nothing from and gives nothing to a connection but c
OthersUntouched(c) ==
    \A d \in Conns \ {c} :
        /\ cn_pc'[d] = cn_pc[d]
        /\ cn_wire'[d] = cn_wire[d]
        /\ cn_closing'[d] = cn_closing[d]
        /\ (d \in cn_clients') <=> (d \in cn_clients)

\* C39 as stated: never more than MAX_CONNECTIONS sessions are past the
\* connection-limit check, and a connection accepted while the session
\* table held MAX_CONNECTIONS entries, with its transport open, is sent
\* the server-full message when its first drain is over
C39_LateConnectionRefused ==
    /\ [](Cardinality(SessionsPastCheck) <= MAX_CONNECTIONS)
    /\ [][\A c \in Conns :
              (cn_late[c] /\ ~cn_closing[c] /\ cn_pc[c] = "drain"
                 /\ cn_pc'[c] # "drain")
              => cn_wire'[c] = "full"]_vars

\* C39: never more than MAX_CONNECTIONS sessions are past the
\* connection-limit check; a connection whose limit test finds more than
\* MAX_CONNECTIONS entries in the session table is sent the server-full
\* message if its transport is not closing and never gets past the check;
\* when the send is over its writer is closed and its entry is removed; and
\* none of this changes anything of another connection
C39_LimitAtTheCheck ==
    /\ [](/\ Cardinality(SessionsPastCheck) <= MAX_CONNECTIONS
          /\ SessionsPastCheck \subseteq cn_clients
          /\ \A c \in Conns : cn_pc[c] = "full" =>
                 (c \in cn_clients /\ cn_wire[c] = "full"))
    /\ [][\A c \in Conns :
              /\ (cn_pc[c] = "drain" /\ cn_pc'[c] # "drain"
                    /\ over_limit(Cardinality(cn_clients)))
                 => /\ cn_pc'[c] \in {"full", "ended"}
                    /\ ~cn_closing[c] => cn_wire'[c] = "full"
                    /\ cn_pc'[c] = "ended" => c \notin cn_clients'
                    /\ OthersUntouched(c)
              /\ (cn_pc[c] = "full" /\ cn_pc'[c] # "full")
                 => /\ cn_pc'[c] = "ended"
                    /\ c \notin cn_clients'
                    /\ OthersUntouched(c)]_vars

\* a connection that found the table over the limit has been sent the
\* server-full message and is gone, while MAX_CONNECTIONS sessions are in
\* the game
C39_Witness ==
    \E c \in Conns :
        /\ cn_pc[c] = "ended"
        /\ cn_wire[c] = "full"
        /\ c \notin cn_clients
        /\ Cardinality({d \in Conns : cn_pc[d] = "game"}) = MAX_CONNECTIONS

\* the verb has been answered with the suggestions for an unknown verb
Suggested == sg_pc = "unknown"

\* C40: for an unknown verb the list of suggestions has at most three
\* entries, and before each entry that matches only by the overlap of its
\* characters stands every registered command the typed text is a prefix of
C40_PrefixMatchesFirst ==
    Suggested =>
        /\ Len(sg_similar) <= 3
        /\ \A j \in DOMAIN sg_similar :
               ~startswith(sg_similar[j], sg_text) =>
                   \A k \in DOMAIN registered_commands :
                       startswith(registered_commands[k], sg_text) =>
                           \E i \in 1..(j - 1) :
                               sg_similar[i] = registered_commands[k]

====
